---- MODULE Spec2Model ----
(***************************************************************************)
(* Model of the document collection core (collection.cpp):                 *)
(*   - the per-collection reader/writer lock with timed acquisition and    *)
(*     the database-wide deadlock detector (Spec);                         *)
(*   - the document mutation pipeline insert/update/replace/remove over    *)
(*     the primary index, the secondary indexes, the master pointers and   *)
(*     the write-ahead log (DocSpec);                                      *)
(*   - open(): the replay of the markers (RecSpec);                        *)
(*   - the index registry, the index-creation helpers and fillIndexes      *)
(*     (IdxSpec).                                                          *)
(***************************************************************************)
EXTENDS Integers, Sequences, FiniteSets, TLC

\* ------------------------------------------------------------------ bounds
MaxTimeout == 5
MaxPolls == 7
MaxRev == 3
MaxMarkers == 3
MaxSlots == 2
NumSecondary == 2
MaxIndexes == 4
MaxTick == 2
MaxFid == 2
NumVertices == 4
MaxPaths == 2
MaxFetches == 3
MaxRows == 2
NumRestorers == 1

\* --------------------------------------------------------------- constants
\* a timeout of 0 is replaced by 15 minutes, in microseconds
DefaultTimeout == 15 * 60 * 1000 * 1000
\* the deadlock check is repeated once ++iterations reaches this value
CheckInterval == 5

\* two threads: what mutual exclusion and a two-party wait-for cycle need
Threads == {1, 2}
Colls == {"A", "B", "N"}
NoColl == "-"
\* Transaction::_makeNolockHeaders: the names that are not locked by command
makeNolockHeaders == {"N"}

NoError == "TRI_ERROR_NO_ERROR"
OutOfMemory == "TRI_ERROR_OUT_OF_MEMORY"
Deadlock == "TRI_ERROR_DEADLOCK"
LockTimeout == "TRI_ERROR_LOCK_TIMEOUT"
Exception == "exception"
NoResult == "none"

Timeouts == {0, 1, MaxTimeout}
SleepPeriods == {1, DefaultTimeout}

UniqueConstraintViolated == "TRI_ERROR_ARANGO_UNIQUE_CONSTRAINT_VIOLATED"
DocumentNotFound == "TRI_ERROR_ARANGO_DOCUMENT_NOT_FOUND"
Conflict == "TRI_ERROR_ARANGO_CONFLICT"
Internal == "TRI_ERROR_INTERNAL"
WalError == "wal append failed"
InvalidEdgeAttribute == "TRI_ERROR_ARANGO_INVALID_EDGE_ATTRIBUTE"
DocumentRevBad == "TRI_ERROR_ARANGO_DOCUMENT_REV_BAD"

\* the collection the document operations work on
DocColl == "A"
Keys == {"k1", "k2"}
\* values of the indexed attribute
Vals == {1, 2}
\* the attribute is not in the request
NoVal == 0
Slots == 1..MaxSlots
\* nullptr: no master pointer
NoSlot == 0
\* the request carries no _rev (expected.isNone())
NoRev == 0
\* positions 1..n-1 of _indexes; position 0 is the primary index
Secs == 1..NumSecondary
\* TRI_COL_TYPE_DOCUMENT and TRI_COL_TYPE_EDGE
CollectionTypes == {"document", "edge"}
\* the attribute names of the index definitions, in sort order
AttrNames == <<"a", "b", "c">>
\* _info.id(): above every index id the tick generates
CollectionId == MaxTick + 2

VARIABLES
  lockState,  \* _lock of each collection: the mode in which each thread holds it
  active,     \* deadlock detector: collection -> (threads registered, isWrite)
  blocked,    \* deadlock detector: thread -> (collection it waits for, isWrite)
  th,         \* per thread: the lock call in progress, or the last one returned
  primary,          \* primary index: key -> master pointer
  masterPointers,   \* _masterPointers: slot -> the document version it points at
  secondary,        \* secondary indexes: the (master pointer, value) entries
  numberDocuments,  \* _numberDocuments
  walTick,          \* operations handed to the write-ahead log
  clock,            \* TRI_HybridLogicalClock: the last revision minted
  dop,              \* per thread: the document call in progress
  lastCall,         \* the document call that returned last, and its result
  lastOk,           \* per key: the last successful insert or remove
  versionBy,        \* per key: the kind of call that wrote the current version
  openState,        \* open(): its position, the markers replayed (type, key
                    \* and revision of each), _info._revision
  registry,         \* _indexes, _cleanupIndexes, _persistentIndexes,
                    \* _useSecondaryIndexes, the tick the index ids come from
  idxCall,          \* the index call that returned last, and what it returned
  fill,             \* fillIndexes: the calling thread's position, the tasks,
                    \* the barrier and the latched result
  sp,               \* ConstantWeightShortestPathFinder: the closures, the
                    \* snippets found from either side, the result of the call
  me                \* ModificationExecutor: _prepared, the block of the
                    \* modifier, the fetcher, and what the calls have done

lockVars == <<lockState, active, blocked, th>>
docVars == <<primary, masterPointers, secondary, numberDocuments, walTick, clock,
             dop, lastCall, lastOk, versionBy, openState, registry, idxCall,
             fill, sp, me>>
vars == <<lockState, active, blocked, th, primary, masterPointers, secondary,
          numberDocuments, walTick, clock, dop, lastCall, lastOk, versionBy,
          openState, registry, idxCall, fill, sp, me>>

NotBlocked == [coll |-> NoColl, isWrite |-> FALSE]

IdleThread ==
  [pc |-> "idle", op |-> "none", coll |-> NoColl, timeout |-> 0,
   sleepPeriod |-> 0, waited |-> 0, iterations |-> 0, wasBlocked |-> FALSE,
   attempts |-> 0, result |-> NoResult, exit |-> "none"]

\* a loop that takes the timeout as it is given
EffectiveTimeout_Mut(timeout) == timeout

\* the timeout the loop uses: 0 means 15 minutes
EffectiveTimeout(timeout) == IF timeout = 0 THEN DefaultTimeout ELSE timeout

\* the (timeout, sleepPeriod) pairs a call is made with: those whose loop ends
\* within MaxPolls sleeps
TimedArgs ==
  {a \in Timeouts \X SleepPeriods : EffectiveTimeout(a[1]) \div a[2] < MaxPolls}

\* ----------------------------------------------------- ReadWriteLock (_lock)
tryReadLock(c) == \A u \in Threads : lockState[c][u] # "write"
tryWriteLock(c) == \A u \in Threads : lockState[c][u] = "none"
unlock(ls, c, t) == [ls EXCEPT ![c][t] = "none"]

\* ------------------------------------------------------- DeadlockDetector
addActive(ac, c, t, isWrite) ==
  [ac EXCEPT ![c] = [tids |-> @.tids \cup {t}, isWrite |-> isWrite]]

unsetActive(ac, c, t) ==
  [ac EXCEPT ![c] = [tids |-> @.tids \ {t},
                     isWrite |-> IF @.tids \ {t} = {} THEN FALSE ELSE @.isWrite]]

unsetBlocked(bl, t) == [bl EXCEPT ![t] = NotBlocked]

\* the threads a blocked thread waits for: a reader waits for the writer of the
\* collection, a writer waits for every thread registered on it
Blockers(bl, t) ==
  IF bl[t].coll = NoColl THEN {}
  ELSE LET a == active[bl[t].coll] IN
       IF bl[t].isWrite \/ a.isWrite THEN a.tids ELSE {}

RECURSIVE ReachableFrom(_, _, _)
ReachableFrom(bl, frontier, seen) ==
  IF frontier \subseteq seen THEN seen
  ELSE LET new == frontier \ seen IN
       ReachableFrom(bl, UNION {Blockers(bl, u) : u \in new}, seen \cup new)

\* a cycle of the wait-for graph through thread t
detectDeadlock(bl, t) == t \in ReachableFrom(bl, Blockers(bl, t), {})

\* --------------------------------------------------------- lock operations
\* a no-lock set that is never consulted
noLock_Mut(c) == FALSE

\* "do not lock by command": the collection name is in the no-lock set
noLock(c) == c \in makeNolockHeaders

\* a write locker that only looks for other writers
lockerIsLocked_Mut(c, isWrite) == tryReadLock(c)

\* READ_LOCKER / WRITE_LOCKER / TRY_READ_LOCKER / TRY_WRITE_LOCKER: whether the
\* locker of the operation obtains the lock
lockerIsLocked(c, isWrite) == IF isWrite THEN tryWriteLock(c) ELSE tryReadLock(c)

\* a locker that never releases
lockerDestructor_Mut(ls, c, t, stolen) == ls

\* the locker's destructor: a lock that was not stolen is released
lockerDestructor(ls, c, t, stolen) == IF stolen THEN ls ELSE unlock(ls, c, t)

IsWriteOp(op) == op \in {"beginWrite", "beginWriteTimed", "endWrite"}
ModeOf(op) == IF IsWriteOp(op) THEN "write" ELSE "read"

\* the thread after the call has returned res; exit names the return statement
Returned(res, exit) == [IdleThread EXCEPT !.result = res, !.exit = exit]

\* the same, remembering which call it was
ReturnedFrom(op, c, res, exit) ==
  [IdleThread EXCEPT !.op = op, !.coll = c, !.result = res, !.exit = exit]

NoLockReturn(t, c, op) ==
  /\ th' = [th EXCEPT ![t] = ReturnedFrom(op, c, NoError, "nolock")]
  /\ UNCHANGED <<lockState, active, blocked>>

\* beginRead / beginWrite up to the point where the locker holds the lock
BeginUntimed(t, c, op) ==
  /\ th[t].pc = "idle"
  /\ lockState[c][t] = "none"
  /\ IF noLock(c)
     THEN NoLockReturn(t, c, op)
     ELSE /\ lockerIsLocked(c, IsWriteOp(op))
          /\ lockState' = [lockState EXCEPT ![c][t] = ModeOf(op)]
          /\ th' = [th EXCEPT ![t] = [IdleThread EXCEPT !.pc = "register",
                                                        !.op = op, !.coll = c]]
          /\ UNCHANGED <<active, blocked>>

beginRead(t, c) == BeginUntimed(t, c, "beginRead") /\ UNCHANGED docVars
beginWrite(t, c) == BeginUntimed(t, c, "beginWrite") /\ UNCHANGED docVars

\* the rest of beginRead / beginWrite: addReader / addWriter, then steal the
\* lock; if the detector throws, return out of memory and the locker unlocks
registerUntimed(t) ==
  LET r == th[t] IN
  /\ r.pc = "register"
  /\ UNCHANGED <<blocked, docVars>>
  /\ \/ /\ active' = addActive(active, r.coll, t, IsWriteOp(r.op))
        /\ lockState' = lockerDestructor(lockState, r.coll, t, TRUE)
        /\ th' = [th EXCEPT ![t] = Returned(NoError, "locked")]
     \/ /\ lockState' = lockerDestructor(lockState, r.coll, t, FALSE)
        /\ th' = [th EXCEPT ![t] = Returned(OutOfMemory, "register")]
        /\ UNCHANGED active

\* endRead / endWrite: unregister with the detector, then unlock
EndUntimed(t, c, op) ==
  /\ th[t].pc = "idle"
  /\ IF noLock(c)
     THEN NoLockReturn(t, c, op)
     ELSE /\ lockState[c][t] = ModeOf(op)
          /\ active' = unsetActive(active, c, t)
          /\ lockState' = unlock(lockState, c, t)
          /\ th' = [th EXCEPT ![t] = Returned(NoError, "unlocked")]
          /\ UNCHANGED blocked

endRead(t, c) == EndUntimed(t, c, "endRead") /\ UNCHANGED docVars
endWrite(t, c) == EndUntimed(t, c, "endWrite") /\ UNCHANGED docVars

\* beginReadTimed / beginWriteTimed up to the head of the polling loop
BeginTimed(t, c, op, timeout, sleepPeriod) ==
  /\ th[t].pc = "idle"
  /\ lockState[c][t] = "none"
  /\ IF noLock(c)
     THEN NoLockReturn(t, c, op)
     ELSE /\ th' = [th EXCEPT ![t] =
                 [IdleThread EXCEPT !.pc = "poll", !.op = op, !.coll = c,
                                    !.timeout = EffectiveTimeout(timeout),
                                    !.sleepPeriod = sleepPeriod]]
          /\ UNCHANGED <<lockState, active, blocked>>

beginReadTimed(t, c, timeout, sleepPeriod) ==
  BeginTimed(t, c, "beginReadTimed", timeout, sleepPeriod) /\ UNCHANGED docVars
beginWriteTimed(t, c, timeout, sleepPeriod) ==
  BeginTimed(t, c, "beginWriteTimed", timeout, sleepPeriod) /\ UNCHANGED docVars

\* a timeout check that lets the boundary pass once more
timedOut_Mut(waited, timeout) == waited > timeout + 1

\* waited > timeout, after the sleep
timedOut(waited, timeout) == waited > timeout

\* a loop that never registers the thread as blocked
firstAttempt_Mut(wasBlocked) == FALSE

\* if (!wasBlocked): the first failed attempt of the call
firstAttempt(wasBlocked) == ~wasBlocked

\* a check that comes one attempt early
checkDue_Mut(iterations) == iterations + 1 >= CheckInterval - 1

\* ++iterations >= 5
checkDue(iterations) == iterations + 1 >= CheckInterval

\* the detector's bookkeeping when the loop is left by each failure path
blockedAfterCatch(bl, t, wasBlocked) == IF wasBlocked THEN unsetBlocked(bl, t) ELSE bl
blockedAfterDeadlock(bl, t) == unsetBlocked(bl, t)
blockedAfterTimeout(bl, t) == unsetBlocked(bl, t)

\* the thread after LockTimeout is returned; the timeout and the sleep period
\* the loop has used and the number of its failed attempts stay on record
TimedOut(rec) ==
  [ReturnedFrom(rec.op, rec.coll, LockTimeout, "timeout")
     EXCEPT !.attempts = rec.attempts, !.timeout = rec.timeout,
            !.sleepPeriod = rec.sleepPeriod]

\* a timeout return that leaves with the lock
SleepAndCheck_Mut(t, rec, bl, ls) ==
  LET w == rec.waited + rec.sleepPeriod
      r == [rec EXCEPT !.waited = w] IN
  /\ UNCHANGED active
  /\ IF w > r.timeout
     THEN /\ lockState' = [ls EXCEPT ![rec.coll][t] = ModeOf(rec.op)]
          /\ blocked' = unsetBlocked(bl, t)
          /\ th' = [th EXCEPT ![t] = TimedOut(rec)]
     ELSE /\ lockState' = ls
          /\ blocked' = bl
          /\ th' = [th EXCEPT ![t] = r]

\* usleep(sleepPeriod); waited += sleepPeriod; the timeout check
SleepAndCheck(t, rec, bl, ls) ==
  LET w == rec.waited + rec.sleepPeriod
      r == [rec EXCEPT !.waited = w] IN
  /\ lockState' = ls
  /\ UNCHANGED active
  /\ IF timedOut(w, r.timeout)
     THEN /\ blocked' = blockedAfterTimeout(bl, t)
          /\ th' = [th EXCEPT ![t] = TimedOut(r)]
     ELSE /\ blocked' = bl
          /\ th' = [th EXCEPT ![t] = r]

\* one pass of the loop body after the try-locker did not obtain the lock;
\* ls is the lock state the locker leaves behind, throws is whether the
\* detector call of this pass throws
FailedAttempt(t, throws, ls) ==
  LET r == [th[t] EXCEPT !.attempts = @ + 1]
      isWrite == IsWriteOp(r.op)
      withMe == [blocked EXCEPT ![t] = [coll |-> r.coll, isWrite |-> isWrite]]
  IN
  IF firstAttempt(r.wasBlocked)
  THEN \* wasBlocked = true; setReaderBlocked / setWriterBlocked
       LET rb == [r EXCEPT !.wasBlocked = TRUE] IN
       IF throws
       THEN /\ blocked' = blockedAfterCatch(blocked, t, rb.wasBlocked)
            /\ th' = [th EXCEPT ![t] = Returned(OutOfMemory, "catch")]
            /\ lockState' = ls
            /\ UNCHANGED active
       ELSE IF detectDeadlock(withMe, t)
       THEN \* the detector has not kept the thread registered
            /\ th' = [th EXCEPT ![t] = ReturnedFrom(r.op, r.coll, Deadlock, "first")]
            /\ lockState' = ls
            /\ UNCHANGED <<active, blocked>>
       ELSE SleepAndCheck(t, rb, withMe, ls)
  ELSE IF checkDue(r.iterations)
  THEN LET rc == [r EXCEPT !.iterations = 0] IN
       IF throws
       THEN /\ blocked' = blockedAfterCatch(blocked, t, rc.wasBlocked)
            /\ th' = [th EXCEPT ![t] = Returned(OutOfMemory, "catch")]
            /\ lockState' = ls
            /\ UNCHANGED active
       ELSE IF detectDeadlock(blocked, t)
       THEN /\ blocked' = blockedAfterDeadlock(blocked, t)
            /\ th' = [th EXCEPT ![t] = [Returned(Deadlock, "periodic")
                                           EXCEPT !.attempts = rc.attempts]]
            /\ lockState' = ls
            /\ UNCHANGED active
       ELSE SleepAndCheck(t, rc, blocked, ls)
  ELSE /\ ~throws
       /\ SleepAndCheck(t, [r EXCEPT !.iterations = @ + 1], blocked, ls)

\* one pass of the while (true) loop of beginReadTimed / beginWriteTimed
timedLoop(t) ==
  LET r == th[t] IN
  /\ r.pc = "poll"
  /\ UNCHANGED docVars
  /\ IF lockerIsLocked(r.coll, IsWriteOp(r.op))
     THEN /\ lockState' = [lockState EXCEPT ![r.coll][t] = ModeOf(r.op)]
          /\ th' = [th EXCEPT ![t] = [IdleThread EXCEPT !.pc = "locked",
                                       !.op = r.op, !.coll = r.coll,
                                       !.wasBlocked = r.wasBlocked]]
          /\ UNCHANGED <<active, blocked>>
     ELSE \E throws \in BOOLEAN : FailedAttempt(t, throws, lockState)

\* the lock was obtained: addReader / addWriter (this, wasBlocked), then steal;
\* an exception of the detector leaves the function, and the locker unlocks
timedRegister(t) ==
  LET r == th[t] IN
  /\ r.pc = "locked"
  /\ UNCHANGED docVars
  /\ \/ /\ active' = addActive(active, r.coll, t, IsWriteOp(r.op))
        /\ blocked' = IF r.wasBlocked THEN unsetBlocked(blocked, t) ELSE blocked
        /\ lockState' = lockerDestructor(lockState, r.coll, t, TRUE)
        /\ th' = [th EXCEPT ![t] = Returned(NoError, "locked")]
     \/ /\ lockState' = lockerDestructor(lockState, r.coll, t, FALSE)
        /\ th' = [th EXCEPT ![t] = Returned(Exception, "throw")]
        /\ UNCHANGED <<active, blocked>>


\* ------------------------------------------------------------ document store
\* a master pointer: the key, the revision and the indexed attribute of the
\* document version the handle points at
FreeSlot == [key |-> "-", rev |-> NoRev, val |-> NoVal]
Header(key, rev, val) == [key |-> key, rev |-> rev, val |-> val]

\* the collection's in-memory state the operators below transform
DocState ==
  [primary |-> primary, mp |-> masterPointers, sec |-> secondary,
   num |-> numberDocuments, wal |-> walTick]

\* errors the collaborators are made to return: no handle left, an index that
\* fails to insert or to remove, a write-ahead log that rejects the operation
NoFault ==
  [handle |-> FALSE, ins |-> [i \in Secs |-> NoError],
   rem |-> [i \in Secs |-> FALSE], pri |-> FALSE, wal |-> FALSE]
HandleFaults == {[NoFault EXCEPT !.handle = TRUE]}
WalFaults == {[NoFault EXCEPT !.wal = TRUE]}
InsertFaults == {[NoFault EXCEPT !.ins[i] = e] : i \in Secs, e \in {OutOfMemory, Internal}}
RemoveFaults == {[NoFault EXCEPT !.rem[i] = TRUE] : i \in Secs}
PrimaryFaults == {[NoFault EXCEPT !.pri = TRUE]}

\* _masterPointers.request(): the first free slot, nullptr when there is none
request(mp, fails) ==
  LET free == {s \in Slots : mp[s] = FreeSlot}
  IN IF fails \/ free = {} THEN NoSlot
     ELSE CHOOSE s \in free : \A u \in free : s <= u
release(mp, slot) == [mp EXCEPT ![slot] = FreeSlot]

\* the index at position 1 is a unique hash index, the others are not unique
isUnique(i) == i = 1

\* idx->insert(trx, header, isRollback) of one secondary index
idxInsert(entries, i, slot, val, isRollback, errs) ==
  IF isRollback THEN [res |-> NoError, e |-> entries \cup {<<slot, val>>}]
  ELSE IF errs[i] # NoError THEN [res |-> errs[i], e |-> entries]
  ELSE IF isUnique(i) /\ \E x \in entries : x[2] = val /\ x[1] # slot
    THEN [res |-> UniqueConstraintViolated, e |-> entries]
  ELSE [res |-> NoError, e |-> entries \cup {<<slot, val>>}]

\* idx->remove(trx, header, isRollback) of one secondary index
idxRemove(entries, i, slot, val, isRollback, fails) ==
  IF ~isRollback /\ fails[i] THEN [res |-> Internal, e |-> entries]
  ELSE [res |-> NoError, e |-> entries \ {<<slot, val>>}]

RECURSIVE insertSecondaryLoop(_, _, _, _, _, _, _)
insertSecondaryLoop(i, sec, result, slot, val, isRollback, errs) ==
  IF i > NumSecondary THEN [res |-> result, sec |-> sec]
  ELSE LET r == idxInsert(sec[i], i, slot, val, isRollback, errs)
           sec1 == [sec EXCEPT ![i] = r.e]
       IN IF r.res = OutOfMemory THEN [res |-> OutOfMemory, sec |-> sec1]
          ELSE insertSecondaryLoop(i + 1, sec1,
                 IF r.res # NoError
                    /\ (r.res = UniqueConstraintViolated \/ result = NoError)
                 THEN r.res ELSE result,
                 slot, val, isRollback, errs)

\* secondary indexes that take nothing back during a rollback
insertSecondaryIndexes_Mut(sec, slot, val, isRollback, errs) ==
  IF isRollback THEN [res |-> NoError, sec |-> sec]
  ELSE insertSecondaryLoop(1, sec, NoError, slot, val, isRollback, errs)

insertSecondaryIndexes(sec, slot, val, isRollback, errs) ==
  insertSecondaryLoop(1, sec, NoError, slot, val, isRollback, errs)

RECURSIVE deleteSecondaryLoop(_, _, _, _, _, _, _)
deleteSecondaryLoop(i, sec, result, slot, val, isRollback, fails) ==
  IF i > NumSecondary THEN [res |-> result, sec |-> sec]
  ELSE LET r == idxRemove(sec[i], i, slot, val, isRollback, fails)
       IN deleteSecondaryLoop(i + 1, [sec EXCEPT ![i] = r.e],
            IF r.res # NoError THEN r.res ELSE result,
            slot, val, isRollback, fails)

\* secondary indexes that keep the entries they are asked to remove
deleteSecondaryIndexes_Mut(sec, slot, val, isRollback, fails) ==
  [res |-> NoError, sec |-> sec]

deleteSecondaryIndexes(sec, slot, val, isRollback, fails) ==
  deleteSecondaryLoop(1, sec, NoError, slot, val, isRollback, fails)

\* a primary index that takes a key it already has
insertPrimaryIndex_Mut(st, slot) ==
  [res |-> NoError, st |-> [st EXCEPT !.primary[st.mp[slot].key] = slot]]

insertPrimaryIndex(st, slot) ==
  LET key == st.mp[slot].key
  IN IF st.primary[key] = NoSlot
     THEN [res |-> NoError, st |-> [st EXCEPT !.primary[key] = slot]]
     ELSE [res |-> UniqueConstraintViolated, st |-> st]

\* a primary index that keeps the key it is asked to remove
deletePrimaryIndex_Mut(st, slot, fails) == [res |-> NoError, st |-> st]

\* deletePrimaryIndex: the removal can be made to fail before the index is
\* touched
deletePrimaryIndex(st, slot, fails) ==
  LET key == st.mp[slot].key
  IN IF fails THEN [res |-> Internal, st |-> st]
     ELSE IF st.primary[key] = NoSlot
     THEN [res |-> DocumentNotFound, st |-> st]
     ELSE [res |-> NoError, st |-> [st EXCEPT !.primary[key] = NoSlot]]

\* a lookup that finds no key
lookupDocument_Mut(st, key) == NoSlot

lookupDocument(st, key) == st.primary[key]

\* a revision check that lets every expected revision pass
checkRevision_Mut(expected, found) == NoError

\* a check that takes a request without _rev for a mismatch
checkRevision_Strict(expected, found) ==
  IF found # expected THEN Conflict ELSE NoError

checkRevision(expected, found) ==
  IF expected # NoRev /\ found # expected THEN Conflict ELSE NoError

\* TRI_AddOperationTransaction: the log takes the operation or rejects it
addOperation(st, res, fails) ==
  IF fails THEN [res |-> WalError, st |-> st, status |-> "INDEXED"]
  ELSE [res |-> res, st |-> [st EXCEPT !.wal = @ + 1], status |-> "HANDLED"]

\* a rollback that leaves the indexes as the failed operation left them
rollbackOperation_Mut(st, type, slot, oldData, f) == st

\* rollbackOperation: takes the index changes of an operation back
rollbackOperation(st, type, slot, oldData, f) ==
  LET hdr == st.mp[slot]
  IN IF type = "insert"
     THEN LET s1 == deletePrimaryIndex(st, slot, f.pri).st
              del == deleteSecondaryIndexes(s1.sec, slot, hdr.val, TRUE, f.rem)
          IN [s1 EXCEPT !.sec = del.sec, !.num = @ - 1]
     ELSE IF type \in {"update", "replace"}
     THEN LET del == deleteSecondaryIndexes(st.sec, slot, hdr.val, TRUE, f.rem)
              ins == insertSecondaryIndexes(del.sec, slot, oldData.val, TRUE, f.ins)
          IN [st EXCEPT !.sec = ins.sec]
     ELSE LET r == insertPrimaryIndex(st, slot)
          IN IF r.res = NoError
             THEN [r.st EXCEPT
                     !.sec = insertSecondaryIndexes(r.st.sec, slot, hdr.val, TRUE, f.ins).sec,
                     !.num = @ + 1]
             ELSE r.st

\* DocumentOperation::revert: an operation that reached the indexes is rolled
\* back; the handle of an insert is given back, the handle of an update or
\* replace points at the old version again
revert(st, type, status, slot, oldData, f) ==
  LET s1 == IF status = "INDEXED" THEN rollbackOperation(st, type, slot, oldData, f)
            ELSE st
  IN IF type = "insert" THEN [s1 EXCEPT !.mp = release(@, slot)]
     ELSE IF type \in {"update", "replace"} THEN [s1 EXCEPT !.mp[slot] = oldData]
     ELSE s1

\* the operation was handed to the log: the handle of a removed document is
\* given back
handled(st, type, slot) ==
  IF type = "remove" THEN [st EXCEPT !.mp = release(@, slot)] ELSE st

\* an insertDocument that returns a secondary index's error without taking
\* the document out of the indexes it has reached
insertDocument_Mut(st, slot, f) ==
  LET pri == insertPrimaryIndex(st, slot)
  IN IF pri.res # NoError
     THEN [res |-> pri.res, st |-> pri.st, status |-> "CREATED"]
     ELSE LET ins == insertSecondaryIndexes(pri.st.sec, slot, st.mp[slot].val, FALSE, f.ins)
          IN IF ins.res # NoError
             THEN [res |-> ins.res, st |-> [pri.st EXCEPT !.sec = ins.sec],
                   status |-> "CREATED"]
             ELSE addOperation([pri.st EXCEPT !.sec = ins.sec, !.num = @ + 1],
                               NoError, f.wal)

insertDocument(st, slot, f) ==
  LET hdr == st.mp[slot]
      pri == insertPrimaryIndex(st, slot)
  IN IF pri.res # NoError
     THEN [res |-> pri.res, st |-> pri.st, status |-> "CREATED"]
     ELSE LET ins == insertSecondaryIndexes(pri.st.sec, slot, hdr.val, FALSE, f.ins)
          IN IF ins.res # NoError
             THEN LET del == deleteSecondaryIndexes(ins.sec, slot, hdr.val, TRUE, f.rem)
                  IN [res |-> ins.res,
                      st |-> deletePrimaryIndex([pri.st EXCEPT !.sec = del.sec], slot, f.pri).st,
                      status |-> "CREATED"]
             ELSE addOperation([pri.st EXCEPT !.sec = ins.sec, !.num = @ + 1],
                               NoError, f.wal)

\* an updateDocument that returns a secondary index's error with the handle
\* and the indexes as the failed step left them
updateDocument_Mut(st, slot, newHdr, f) ==
  LET oldData == st.mp[slot]
      del == deleteSecondaryIndexes(st.sec, slot, oldData.val, FALSE, f.rem)
  IN IF del.res # NoError
     THEN [res |-> del.res, st |-> [st EXCEPT !.sec = del.sec], status |-> "CREATED"]
     ELSE LET s1 == [st EXCEPT !.sec = del.sec, !.mp[slot] = newHdr]
              ins == insertSecondaryIndexes(s1.sec, slot, newHdr.val, FALSE, f.ins)
          IN IF ins.res # NoError
             THEN [res |-> ins.res, st |-> [s1 EXCEPT !.sec = ins.sec],
                   status |-> "CREATED"]
             ELSE addOperation([s1 EXCEPT !.sec = ins.sec], NoError, f.wal)

updateDocument(st, slot, newHdr, f) ==
  LET oldData == st.mp[slot]
      del == deleteSecondaryIndexes(st.sec, slot, oldData.val, FALSE, f.rem)
  IN IF del.res # NoError
     THEN [res |-> del.res,
           st |-> [st EXCEPT !.sec =
                     insertSecondaryIndexes(del.sec, slot, oldData.val, TRUE, f.ins).sec],
           status |-> "CREATED"]
     ELSE LET s1 == [st EXCEPT !.sec = del.sec, !.mp[slot] = newHdr]
              ins == insertSecondaryIndexes(s1.sec, slot, newHdr.val, FALSE, f.ins)
          IN IF ins.res # NoError
             THEN LET d2 == deleteSecondaryIndexes(ins.sec, slot, newHdr.val, TRUE, f.rem)
                      i2 == insertSecondaryIndexes(d2.sec, slot, oldData.val, TRUE, f.ins)
                  IN [res |-> ins.res,
                      st |-> [s1 EXCEPT !.mp[slot] = oldData, !.sec = i2.sec],
                      status |-> "CREATED"]
             ELSE addOperation([s1 EXCEPT !.sec = ins.sec], NoError, f.wal)

\* read(): the result and the copy of the handle in *mptr, which stays unset
\* when the key is not found
read(st, key) ==
  LET slot == lookupDocument(st, key)
  IN IF slot = NoSlot THEN [res |-> DocumentNotFound, mptr |-> FreeSlot, st |-> st]
     ELSE [res |-> NoError, mptr |-> st.mp[slot], st |-> st]

\* the critical section of insert(): from the handle request to the return
insert(st, key, val, rev, f) ==
  LET slot == request(st.mp, f.handle)
  IN IF slot = NoSlot THEN [res |-> OutOfMemory, st |-> st]
     ELSE LET s0 == [st EXCEPT !.mp[slot] = Header(key, rev, val)]
              r == insertDocument(s0, slot, f)
          IN IF r.res # NoError
             THEN [res |-> r.res, st |-> revert(r.st, "insert", r.status, slot, FreeSlot, f)]
             ELSE [res |-> NoError, st |-> handled(r.st, "insert", slot)]

\* newSlice.length(): _key, and _rev and the attribute when the request has them
sliceLength(val, expected) ==
  1 + (IF expected # NoRev THEN 1 ELSE 0) + (IF val # NoVal THEN 1 ELSE 0)

\* mergeObjectsForUpdate: the attribute of the request wins, the key stays,
\* the revision is the new one
mergeObjectsForUpdate(old, val, rev) ==
  Header(old.key, rev, IF val = NoVal THEN old.val ELSE val)

\* newObjectForReplace: the request's attribute, the key, the new revision
newObjectForReplace(old, val, rev) == Header(old.key, rev, val)

\* the critical section of update()
update(st, key, val, expected, ignoreRevs, rev, f) ==
  LET slot == lookupDocument(st, key)
  IN IF slot = NoSlot THEN [res |-> DocumentNotFound, st |-> st]
     ELSE IF ~ignoreRevs /\ checkRevision(expected, st.mp[slot].rev) # NoError
     THEN [res |-> Conflict, st |-> st]
     ELSE IF sliceLength(val, expected) <= 1 THEN [res |-> NoError, st |-> st]
     ELSE LET oldData == st.mp[slot]
              r == updateDocument(st, slot, mergeObjectsForUpdate(oldData, val, rev), f)
          IN IF r.res # NoError
             THEN [res |-> r.res, st |-> revert(r.st, "update", r.status, slot, oldData, f)]
             ELSE [res |-> NoError, st |-> handled(r.st, "update", slot)]

\* the critical section of replace()
replace(st, key, val, expected, ignoreRevs, rev, f) ==
  LET slot == lookupDocument(st, key)
  IN IF slot = NoSlot THEN [res |-> DocumentNotFound, st |-> st]
     ELSE IF ~ignoreRevs /\ checkRevision(expected, st.mp[slot].rev) # NoError
     THEN [res |-> Conflict, st |-> st]
     ELSE LET oldData == st.mp[slot]
              r == updateDocument(st, slot, newObjectForReplace(oldData, val, rev), f)
          IN IF r.res # NoError
             THEN [res |-> r.res, st |-> revert(r.st, "replace", r.status, slot, oldData, f)]
             ELSE [res |-> NoError, st |-> handled(r.st, "replace", slot)]

\* a remove that takes the document out of the indexes and leaves
\* _numberDocuments as it is
remove_Mut(st, key, expected, ignoreRevs, f) ==
  LET slot == lookupDocument(st, key)
  IN IF slot = NoSlot THEN [res |-> DocumentNotFound, st |-> st]
     ELSE LET del == deleteSecondaryIndexes(st.sec, slot, st.mp[slot].val, TRUE, f.rem)
              pri == deletePrimaryIndex([st EXCEPT !.sec = del.sec], slot, f.pri)
          IN [res |-> NoError, st |-> handled(pri.st, "remove", slot)]

\* the critical section of remove()
remove(st, key, expected, ignoreRevs, f) ==
  LET slot == lookupDocument(st, key)
  IN IF slot = NoSlot THEN [res |-> DocumentNotFound, st |-> st]
     ELSE IF ~ignoreRevs /\ checkRevision(expected, st.mp[slot].rev) # NoError
     THEN [res |-> Conflict, st |-> st]
     ELSE LET hdr == st.mp[slot]
              del == deleteSecondaryIndexes(st.sec, slot, hdr.val, FALSE, f.rem)
          IN IF del.res # NoError
             THEN [res |-> del.res,
                   st |-> [st EXCEPT !.sec =
                             insertSecondaryIndexes(del.sec, slot, hdr.val, TRUE, f.ins).sec]]
             ELSE LET pri == deletePrimaryIndex([st EXCEPT !.sec = del.sec], slot, f.pri)
                  IN IF pri.res # NoError
                     THEN [res |-> pri.res,
                           st |-> [st EXCEPT !.sec =
                                     insertSecondaryIndexes(del.sec, slot, hdr.val, TRUE,
                                                            f.ins).sec]]
                     ELSE LET r == addOperation([pri.st EXCEPT !.num = @ - 1], NoError, f.wal)
                          IN IF r.res # NoError
                             THEN [res |-> r.res,
                                   st |-> revert(r.st, "remove", r.status, slot, hdr, f)]
                             ELSE [res |-> NoError, st |-> handled(r.st, "remove", slot)]

\* ------------------------------------------------------------ document calls
IdleDoc == [pc |-> "idle", kind |-> "none", rev |-> NoRev, restore |-> "no"]
NoCall == [kind |-> "none", key |-> "-", result |-> NoResult, mptr |-> FreeSlot,
           restore |-> "no"]
Kinds == {"insert", "update", "replace", "remove"}

\* the part of a call before the write lock: the new revision is taken from
\* the hybrid logical clock
hybridLogicalClock(t, kind) ==
  /\ dop[t].pc = "idle"
  /\ clock < MaxRev
  /\ clock' = clock + 1
  /\ dop' = [dop EXCEPT ![t] = [IdleDoc EXCEPT !.pc = "minted", !.kind = kind,
                                               !.rev = clock + 1]]
  /\ UNCHANGED <<lockVars, primary, masterPointers, secondary, numberDocuments,
                 walTick, lastCall, lastOk, versionBy, openState,
                 registry, idxCall, fill,
                 sp, me>>

\* what a request has as _from or _to: nothing, a value that is not a
\* string, a string that is no document id, a document id
EdgeAttributes == {"none", "number", "invalid", "valid"}
isString(a) == a \in {"invalid", "valid"}
TRI_ValidateDocumentIdKeyGenerator(a) == a = "valid"

\* a check that looks at _from alone
validateEdgeAttributes_Mut(isEdgeCollection, from, to) ==
  IF ~isEdgeCollection THEN NoError
  ELSE IF ~isString(from) \/ ~TRI_ValidateDocumentIdKeyGenerator(from)
  THEN InvalidEdgeAttribute
  ELSE NoError

\* the head of insert(): in an edge collection _from and then _to must be
\* strings that are document ids
validateEdgeAttributes(isEdgeCollection, from, to) ==
  IF ~isEdgeCollection THEN NoError
  ELSE IF ~isString(from) THEN InvalidEdgeAttribute
  ELSE IF ~TRI_ValidateDocumentIdKeyGenerator(from) THEN InvalidEdgeAttribute
  ELSE IF ~isString(to) THEN InvalidEdgeAttribute
  ELSE IF ~TRI_ValidateDocumentIdKeyGenerator(to) THEN InvalidEdgeAttribute
  ELSE NoError

\* insert() up to the write lock, on a collection of the given type: the
\* edge attributes are checked, and the call returns at once when they are
\* not valid; otherwise newObjectForInsert takes the revision
insertBegin(t, type, from, to) ==
  /\ dop[t].pc = "idle"
  /\ IF validateEdgeAttributes(type = "edge", from, to) # NoError
     THEN /\ lastCall' = [NoCall EXCEPT !.kind = "insert",
                                        !.result = validateEdgeAttributes(
                                                     type = "edge", from, to)]
          /\ UNCHANGED <<lockVars, primary, masterPointers, secondary,
                         numberDocuments, walTick, clock, dop, lastOk, versionBy,
                         openState, registry, idxCall, fill,
                 sp, me>>
     ELSE hybridLogicalClock(t, "insert")

\* CollectionWriteLocker: the call holds the collection's write lock
collectionWriteLocker(t) ==
  /\ dop[t].pc = "minted"
  /\ lockerIsLocked(DocColl, TRUE)
  /\ lockState' = [lockState EXCEPT ![DocColl][t] = "write"]
  /\ active' = addActive(active, DocColl, t, TRUE)
  /\ dop' = [dop EXCEPT ![t].pc = "locked"]
  /\ UNCHANGED <<blocked, th, primary, masterPointers, secondary, numberDocuments,
                 walTick, clock, lastCall, lastOk, versionBy, openState,
                 registry, idxCall, fill,
                 sp, me>>

\* the end of a call: the collection has the state the critical section left,
\* the write lock is released and the call returns
returnDoc(t, key, r) ==
  /\ primary' = r.st.primary
  /\ masterPointers' = r.st.mp
  /\ secondary' = r.st.sec
  /\ numberDocuments' = r.st.num
  /\ walTick' = r.st.wal
  /\ lockState' = unlock(lockState, DocColl, t)
  /\ active' = unsetActive(active, DocColl, t)
  /\ dop' = [dop EXCEPT ![t] = IdleDoc]
  /\ lastCall' = [NoCall EXCEPT !.kind = dop[t].kind, !.key = key, !.result = r.res,
                                 !.restore = dop[t].restore]
  /\ lastOk' = IF r.res = NoError /\ dop[t].kind \in {"insert", "remove"}
               THEN [lastOk EXCEPT ![key] = dop[t].kind] ELSE lastOk
  /\ versionBy' = IF r.res = NoError /\ r.st.mp # masterPointers
                  THEN [versionBy EXCEPT ![key] = dop[t].kind] ELSE versionBy
  /\ UNCHANGED <<blocked, th, clock, openState, registry, idxCall, fill,
                 sp, me>>

\* a critical section that does not wait for the locker
Locked_Mut(t, kind) == dop[t].pc \in {"minted", "locked"} /\ dop[t].kind = kind

Locked(t, kind) == dop[t].pc = "locked" /\ dop[t].kind = kind

\* the _rev a request carries: none, the revision the key's document has, or
\* one no document has
ExpectedRevs(t, key) ==
  {NoRev, dop[t].rev}
    \cup (IF primary[key] = NoSlot THEN {} ELSE {masterPointers[primary[key]].rev})

\* ignoreRevs and the _rev of the request; with ignoreRevs only the presence
\* of _rev matters
RevOptions(t, key) ==
  {<<FALSE, e>> : e \in ExpectedRevs(t, key)} \cup {<<TRUE, dop[t].rev>>}

doInsert(t) ==
  /\ Locked(t, "insert")
  /\ \E key \in Keys, val \in Vals,
        f \in {NoFault} \cup HandleFaults \cup InsertFaults \cup WalFaults :
       returnDoc(t, key, insert(DocState, key, val, dop[t].rev, f))

doUpdate(t) ==
  /\ Locked(t, "update")
  /\ \E key \in Keys, val \in Vals \cup {NoVal},
        f \in {NoFault} \cup RemoveFaults \cup InsertFaults \cup WalFaults :
       \E o \in RevOptions(t, key) :
         returnDoc(t, key, update(DocState, key, val, o[2], o[1], dop[t].rev, f))

doReplace(t) ==
  /\ Locked(t, "replace")
  /\ \E key \in Keys, val \in Vals,
        f \in {NoFault} \cup RemoveFaults \cup InsertFaults \cup WalFaults :
       \E o \in RevOptions(t, key) :
         returnDoc(t, key, replace(DocState, key, val, o[2], o[1], dop[t].rev, f))

doRemove(t) ==
  /\ Locked(t, "remove")
  /\ \E key \in Keys, f \in {NoFault} \cup RemoveFaults \cup PrimaryFaults \cup WalFaults :
       \E o \in RevOptions(t, key) :
         returnDoc(t, key, remove(DocState, key, o[2], o[1], f))

\* read(): under the collection's read lock, which no writer holds at that
\* time, the key is looked up and the handle copied; the lock is released on
\* return
doRead(t) ==
  /\ dop[t].pc = "idle"
  /\ lockerIsLocked(DocColl, FALSE)
  /\ \E key \in Keys :
       LET r == read(DocState, key)
       IN /\ primary' = r.st.primary
          /\ masterPointers' = r.st.mp
          /\ secondary' = r.st.sec
          /\ numberDocuments' = r.st.num
          /\ walTick' = r.st.wal
          /\ lastCall' = [kind |-> "read", key |-> key, result |-> r.res,
                          mptr |-> r.mptr, restore |-> "no"]
  /\ UNCHANGED <<lockVars, clock, dop, lastOk, versionBy, openState, registry,
                 idxCall, fill,
                 sp, me>>

\* ------------------------------------------------------------ index registry
\* an index object: its id, type and definition, and the (master pointer,
\* value) entries it holds
IndexObject(id, type, fields, unique, sparse, minWordLength) ==
  [id |-> id, type |-> type, fields |-> fields, unique |-> unique,
   sparse |-> sparse, minWordLength |-> minWordLength, entries |-> {}]

\* nullptr: no index
NoIndex == IndexObject(0, "none", <<>>, FALSE, FALSE, 0)

\* PrimaryIndex(this): the index with id 0 on _key
PrimaryIndex == IndexObject(0, "primary", <<"_key">>, TRUE, FALSE, 0)

\* EdgeIndex(iid, this): the id is the collection's id
EdgeIndex == IndexObject(CollectionId, "edge", <<"_from", "_to">>, FALSE, FALSE, 0)

\* Index::canBeDropped: the primary and the edge index cannot
canBeDropped(idx) == idx.type \notin {"primary", "edge"}

\* Index::isPersistent: the RocksDB-backed index is
isPersistent(idx) == idx.type = "rocksdb"

NoRegistry ==
  [indexes |-> <<>>, cleanupIndexes |-> 0, persistentIndexes |-> 0,
   useSecondaryIndexes |-> TRUE, tick |-> 0, type |-> "none", stage |-> "none"]

\* a registry that counts no index as one that needs cleanup
addIndex_Mut(reg, idx) ==
  [reg EXCEPT !.indexes = Append(@, idx),
              !.persistentIndexes = IF isPersistent(idx) THEN @ + 1 ELSE @]

addIndex(reg, idx) ==
  [reg EXCEPT !.indexes = Append(@, idx),
              !.cleanupIndexes = IF idx.type = "fulltext" THEN @ + 1 ELSE @,
              !.persistentIndexes = IF isPersistent(idx) THEN @ + 1 ELSE @]

\* the sequence without its i-th element
erase(s, i) == [j \in 1..(Len(s) - 1) |-> IF j < i THEN s[j] ELSE s[j + 1]]

RECURSIVE removeLoop(_, _, _, _)
removeLoop(i, reg, iid, skip) ==
  IF i > Len(reg.indexes) THEN [found |-> NoIndex, reg |-> reg]
  ELSE LET idx == reg.indexes[i]
       IN IF skip /\ ~canBeDropped(idx) THEN removeLoop(i + 1, reg, iid, skip)
          ELSE IF idx.id = iid
          THEN [found |-> idx,
                reg |-> [reg EXCEPT
                  !.indexes = erase(@, i),
                  !.cleanupIndexes = IF idx.type = "fulltext" THEN @ - 1 ELSE @,
                  !.persistentIndexes = IF isPersistent(idx) THEN @ - 1 ELSE @]]
          ELSE removeLoop(i + 1, reg, iid, skip)

\* a removal that does not ask whether the index can be dropped
removeIndex_Mut(reg, iid) == removeLoop(1, reg, iid, FALSE)

removeIndex(reg, iid) == removeLoop(1, reg, iid, TRUE)

\* dropIndex: the id 0 is the primary index and counts as dropped; the
\* failure to log the drop marker is only warned about
dropIndex(reg, iid) ==
  IF iid = 0 THEN [res |-> TRUE, found |-> NoIndex, reg |-> reg]
  ELSE LET r == removeIndex(reg, iid)
       IN [res |-> r.found # NoIndex, found |-> r.found, reg |-> r.reg]

lookupIndex(reg, iid) ==
  LET hits == {i \in DOMAIN reg.indexes : reg.indexes[i].id = iid}
  IN IF hits = {} THEN NoIndex
     ELSE reg.indexes[CHOOSE i \in hits : \A j \in hits : i <= j]

\* createInitialIndexes: the primary index, then the edge index of an edge
\* collection
createInitialIndexes(reg, type) ==
  LET r1 == addIndex([reg EXCEPT !.type = type], PrimaryIndex)
  IN IF type = "edge" THEN addIndex(r1, EdgeIndex) ELSE r1

\* Index::generateId: the next server tick
generateId(reg) == reg.tick + 1

\* the order std::sort puts the attribute names in
AttrRank(a) == CHOOSE i \in DOMAIN AttrNames : AttrNames[i] = a

RECURSIVE sorted(_)
sorted(s) ==
  IF Len(s) <= 1 THEN s
  ELSE LET least == CHOOSE i \in DOMAIN s :
                      \A j \in DOMAIN s :
                        AttrRank(s[i]) < AttrRank(s[j])
                          \/ (AttrRank(s[i]) = AttrRank(s[j]) /\ i <= j)
       IN <<s[least]>> \o sorted(erase(s, least))

\* names that are left in the order given
NamesByAttributeNames_Mut(attributes, isHashIndex) == attributes

\* NamesByAttributeNames: the names of a hash index are sorted
NamesByAttributeNames(attributes, isHashIndex) ==
  IF isHashIndex THEN sorted(attributes) ELSE attributes

\* the field comparison of LookupPathIndexDocumentCollection; with any
\* attribute order allowed the loop compares position j of both lists
fieldsMatch(idxFields, paths, allowAnyAttributeOrder) ==
  /\ Len(idxFields) = Len(paths)
  /\ IF allowAnyAttributeOrder
     THEN \A i \in DOMAIN idxFields : \E j \in DOMAIN idxFields :
            idxFields[j] = paths[j]
     ELSE \A i \in DOMAIN idxFields : idxFields[i] = paths[i]

\* a lookup that finds no index
LookupPathIndexDocumentCollection_Mut(reg, paths, type, sparsity, unique, anyOrder) ==
  NoIndex

\* LookupPathIndexDocumentCollection: the first index of the type with the
\* same uniqueness, sparsity (-1: any) and fields
LookupPathIndexDocumentCollection(reg, paths, type, sparsity, unique, anyOrder) ==
  LET hits == {i \in DOMAIN reg.indexes :
                 /\ reg.indexes[i].type = type
                 /\ type \in {"hash", "skiplist", "rocksdb"}
                 /\ unique = reg.indexes[i].unique
                 /\ (sparsity = -1
                       \/ sparsity = (IF reg.indexes[i].sparse THEN 1 ELSE 0))
                 /\ fieldsMatch(reg.indexes[i].fields, paths, anyOrder)}
  IN IF hits = {} THEN NoIndex
     ELSE reg.indexes[CHOOSE i \in hits : \A j \in hits : i <= j]

\* lookupHashIndex, lookupSkiplistIndex, lookupRocksDBIndex: the names are
\* sorted for a hash index only, and any attribute order is allowed
lookupHashIndex(reg, attributes, sparsity, unique) ==
  LookupPathIndexDocumentCollection(reg, NamesByAttributeNames(attributes, TRUE),
                                    "hash", sparsity, unique, TRUE)

lookupSkiplistIndex(reg, attributes, sparsity, unique) ==
  LookupPathIndexDocumentCollection(reg, NamesByAttributeNames(attributes, FALSE),
                                    "skiplist", sparsity, unique, TRUE)

lookupRocksDBIndex(reg, attributes, sparsity, unique) ==
  LookupPathIndexDocumentCollection(reg, NamesByAttributeNames(attributes, FALSE),
                                    "rocksdb", sparsity, unique, TRUE)

\* LookupFulltextIndexDocumentCollection: FulltextIndex::isSame compares the
\* attribute and the minimum word length
LookupFulltextIndexDocumentCollection(reg, attribute, minWordLength) ==
  LET hits == {i \in DOMAIN reg.indexes :
                 /\ reg.indexes[i].type = "fulltext"
                 /\ reg.indexes[i].fields = <<attribute>>
                 /\ reg.indexes[i].minWordLength = minWordLength}
  IN IF hits = {} THEN NoIndex
     ELSE reg.indexes[CHOOSE i \in hits : \A j \in hits : i <= j]

\* errors the collaborators of an index creation are made to return: an
\* exception while the index is filled, a registry that cannot grow, an index
\* definition that cannot be saved
NoIdxFault == [fill |-> NoError, add |-> FALSE, save |-> NoError]
FillFaults == {[NoIdxFault EXCEPT !.fill = OutOfMemory]}
AddFaults == {[NoIdxFault EXCEPT !.add = TRUE]}
SaveFaults == {[NoIdxFault EXCEPT !.save = Internal]}
IdxFaults == {NoIdxFault} \cup FillFaults \cup AddFaults \cup SaveFaults

\* the master pointers the primary index hands out, in the order of
\* lookupSequential
InPrimaryIndex(st, s) ==
  st.mp[s] # FreeSlot /\ st.primary[st.mp[s].key] = s

\* idx->insert(trx, mptr, false) of an index that is being filled
fillInsert(idx, slot, val) ==
  IF idx.unique /\ \E x \in idx.entries : x[2] = val /\ x[1] # slot
  THEN [res |-> UniqueConstraintViolated, idx |-> idx]
  ELSE [res |-> NoError, idx |-> [idx EXCEPT !.entries = @ \cup {<<slot, val>>}]]

RECURSIVE fillSequentialLoop(_, _, _)
fillSequentialLoop(s, st, idx) ==
  IF s > MaxSlots THEN [res |-> NoError, idx |-> idx]
  ELSE IF ~InPrimaryIndex(st, s) THEN fillSequentialLoop(s + 1, st, idx)
  ELSE LET r == fillInsert(idx, s, st.mp[s].val)
       IN IF r.res # NoError THEN r ELSE fillSequentialLoop(s + 1, st, r.idx)

\* fillIndexSequential: every document of the primary index is inserted,
\* the first error ends the scan
fillIndexSequential(st, idx) == fillSequentialLoop(1, st, idx)

\* a fill that reports no error whatever happens
fillIndex_Mut(reg, st, idx, skipPersistent, fault) ==
  [res |-> NoError, idx |-> idx]

\* fillIndex: nothing is done while the secondary indexes are switched off
\* or for a persistent index that is to be skipped; an exception becomes its
\* error code
fillIndex(reg, st, idx, skipPersistent, fault) ==
  IF ~reg.useSecondaryIndexes THEN [res |-> NoError, idx |-> idx]
  ELSE IF isPersistent(idx) /\ skipPersistent THEN [res |-> NoError, idx |-> idx]
  ELSE IF fault # NoError THEN [res |-> fault, idx |-> idx]
  ELSE fillIndexSequential(st, idx)

\* the common tail of the index-creation helpers: the new index is filled and
\* then stored; created is set last
fillAndStore(reg, st, idx, f) ==
  LET r == fillIndex(reg, st, idx, TRUE, f.fill)
  IN IF r.res # NoError
     THEN [idx |-> NoIndex, created |-> FALSE, reg |-> reg, errno |-> r.res]
     ELSE IF f.add
     THEN [idx |-> NoIndex, created |-> FALSE, reg |-> reg, errno |-> r.res]
     ELSE [idx |-> r.idx, created |-> TRUE, reg |-> addIndex(reg, r.idx),
           errno |-> NoResult]

\* the registry after the id of a new index is taken: a given id is used as
\* it is, the id 0 asks for a generated one
withId(reg, iid) == IF iid = 0 THEN [reg EXCEPT !.tick = generateId(reg)] ELSE reg
idOf(reg, iid) == IF iid = 0 THEN generateId(reg) ELSE iid

\* CreateHashIndexDocumentCollection / CreateSkiplistIndexDocumentCollection
CreatePathIndexDocumentCollection(reg, st, type, attributes, iid, sparse, unique, f) ==
  LET fields == NamesByAttributeNames(attributes, type = "hash")
      found == LookupPathIndexDocumentCollection(
                 reg, fields, type, IF sparse THEN 1 ELSE 0, unique, FALSE)
  IN IF found # NoIndex
     THEN [idx |-> found, created |-> FALSE, reg |-> reg, errno |-> NoResult]
     ELSE fillAndStore(withId(reg, iid), st,
            IndexObject(idOf(reg, iid), type, fields, unique, sparse, 0), f)

CreateHashIndexDocumentCollection(reg, st, attributes, iid, sparse, unique, f) ==
  CreatePathIndexDocumentCollection(reg, st, "hash", attributes, iid, sparse,
                                    unique, f)

CreateSkiplistIndexDocumentCollection(reg, st, attributes, iid, sparse, unique, f) ==
  CreatePathIndexDocumentCollection(reg, st, "skiplist", attributes, iid, sparse,
                                    unique, f)

CreateFulltextIndexDocumentCollection(reg, st, attribute, minWordLength, iid, f) ==
  LET found == LookupFulltextIndexDocumentCollection(reg, attribute, minWordLength)
  IN IF found # NoIndex
     THEN [idx |-> found, created |-> FALSE, reg |-> reg, errno |-> NoResult]
     ELSE fillAndStore(withId(reg, iid), st,
            IndexObject(idOf(reg, iid), "fulltext", <<attribute>>, FALSE, FALSE,
                        minWordLength), f)

\* a geo index: of type geo1 on a location attribute, with its geoJson flag,
\* or of type geo2 on a latitude and a longitude attribute
GeoIndex2(id, type, fields, geoJson) ==
  IndexObject(id, type, fields, FALSE, TRUE, 0) @@ ("geoJson" :> geoJson)

\* lookupGeoIndex1 / lookupGeoIndex2: GeoIndex2::isSame compares the
\* attributes and, for geo1, the geoJson flag
lookupGeoIndex(reg, type, fields, geoJson) ==
  LET hits == {i \in DOMAIN reg.indexes :
                 /\ reg.indexes[i].type = type
                 /\ reg.indexes[i].fields = fields
                 /\ reg.indexes[i].geoJson = geoJson}
  IN IF hits = {} THEN NoIndex
     ELSE reg.indexes[CHOOSE i \in hits : \A j \in hits : i <= j]

\* CreateGeoIndexDocumentCollection: with a location the one-attribute
\* variant, with latitude and longitude the two-attribute variant, otherwise
\* an error
CreateGeoIndexDocumentCollection(reg, st, location, latitude, longitude, geoJson, iid, f) ==
  LET type == IF location # "" THEN "geo1" ELSE "geo2"
      fields == IF location # "" THEN <<location>> ELSE <<latitude, longitude>>
      found == lookupGeoIndex(reg, type, fields, geoJson)
  IN IF location = "" /\ (longitude = "" \/ latitude = "")
     THEN [idx |-> NoIndex, created |-> FALSE, reg |-> reg, errno |-> Internal]
     ELSE IF found # NoIndex
     THEN [idx |-> found, created |-> FALSE, reg |-> reg, errno |-> NoResult]
     ELSE fillAndStore(withId(reg, iid), st,
                       GeoIndex2(idOf(reg, iid), type, fields, geoJson), f)

\* saveIndex: the definition goes to the storage engine and the log
saveIndex(idx, fault) == fault

\* a tail that returns the index whether or not it could be saved
ensureSaved_Mut(r, f) == r

\* the common tail of the ensure calls: a created index is saved, and is not
\* returned when that fails
ensureSaved(r, f) ==
  IF r.idx # NoIndex /\ r.created /\ saveIndex(r.idx, f.save) # NoError
  THEN [r EXCEPT !.idx = NoIndex]
  ELSE r

ensureHashIndex(reg, st, iid, attributes, sparse, unique, f) ==
  ensureSaved(CreateHashIndexDocumentCollection(reg, st, attributes, iid, sparse,
                                                unique, f), f)

ensureSkiplistIndex(reg, st, iid, attributes, sparse, unique, f) ==
  ensureSaved(CreateSkiplistIndexDocumentCollection(reg, st, attributes, iid,
                                                    sparse, unique, f), f)

ensureFulltextIndex(reg, st, iid, attribute, minWordLength, f) ==
  ensureSaved(CreateFulltextIndexDocumentCollection(reg, st, attribute,
                                                    minWordLength, iid, f), f)

ensureGeoIndex1(reg, st, iid, location, geoJson, f) ==
  ensureSaved(CreateGeoIndexDocumentCollection(reg, st, location, "", "",
                                               geoJson, iid, f), f)

ensureGeoIndex2(reg, st, iid, latitude, longitude, f) ==
  ensureSaved(CreateGeoIndexDocumentCollection(reg, st, "", latitude, longitude,
                                               FALSE, iid, f), f)

\* ------------------------------------------------------------ collection open
\* the revisions the clock hands out and the markers carry
Revs == 1..MaxRev

\* the markers of the datafiles, in the order of their ticks: a document
\* version or a deletion, with the key and the revision it carries
Markers ==
  [type : {"document"}, key : Keys, rev : Revs, val : Vals]
    \cup [type : {"remove"}, key : Keys, rev : Revs, val : {NoVal}]

\* what a marker handler can be made to fail with: no handle from
\* _masterPointers.request(), or an error of the primary index's insertKey
MarkerFaults == {"none", "request", "insertKey"}

\* the datafiles of the collection, by their ids
Fids == 1..MaxFid

\* OpenIteratorState has the id of the datafile looked at (_fid, 0 at first)
\* and the statistics of each datafile (_stats, of which numberAlive is kept);
\* fidOf is the datafile id each handle was given by setFid
ClosedState ==
  [pc |-> "closed", replayed |-> <<>>, revision |-> NoRev, failed |-> NoError,
   fid |-> 0, numberAlive |-> [f \in Fids |-> 0], fidOf |-> [s \in Slots |-> 0]]

\* a revision high-water-mark that takes every revision it is given
setRevision_Mut(revision, rid, force) == rid

\* VocbaseCollectionInfo::setRevision
setRevision(revision, rid, force) ==
  IF force \/ rid > revision THEN rid ELSE revision

setLastRevision(revision, rid, force) ==
  IF rid > 0 THEN setRevision(revision, rid, force) ELSE revision

\* a handler that keeps the version a key already has
OpenIteratorHandleDocumentMarker_Keep(st, m, fault) ==
  IF st.primary[m.key] # NoSlot THEN [res |-> NoError, st |-> st]
  ELSE LET header == request(st.mp, fault = "request")
       IN IF header = NoSlot \/ fault = "insertKey"
          THEN [res |-> OutOfMemory, st |-> st]
          ELSE [res |-> NoError,
                st |-> [st EXCEPT !.mp[header] = Header(m.key, m.rev, m.val),
                                  !.primary[m.key] = header, !.num = @ + 1]]

\* OpenIteratorHandleDocumentMarker, after setLastRevision: a key the primary
\* index does not have gets a handle and an index entry, a key it has gets
\* its handle pointed at the marker
OpenIteratorHandleDocumentMarker(st, m, fault) ==
  LET found == st.primary[m.key]
  IN IF found = NoSlot
     THEN LET header == request(st.mp, fault = "request")
          IN IF header = NoSlot THEN [res |-> OutOfMemory, st |-> st]
             ELSE IF fault = "insertKey" THEN [res |-> OutOfMemory, st |-> st]
             ELSE [res |-> NoError,
                   st |-> [st EXCEPT !.mp[header] = Header(m.key, m.rev, m.val),
                                     !.primary[m.key] = header,
                                     !.num = @ + 1]]
     ELSE [res |-> NoError,
           st |-> [st EXCEPT !.mp[found] = Header(m.key, m.rev, m.val)]]

\* OpenIteratorHandleDeletionMarker, after setLastRevision: a key the primary
\* index has is removed, its handle given back
OpenIteratorHandleDeletionMarker(st, m) ==
  LET found == st.primary[m.key]
  IN IF found = NoSlot THEN [res |-> NoError, st |-> st]
     ELSE LET del == deletePrimaryIndex(st, found, FALSE).st
          IN [res |-> NoError,
              st |-> [del EXCEPT !.num = @ - 1, !.mp = release(@, found)]]

\* statistics that count a replaced version as still alive
DocumentMarkerStats_Mut(os, st, m, fid, res) ==
  IF res # NoError THEN [os EXCEPT !.fid = fid]
  ELSE [os EXCEPT !.fid = fid, !.numberAlive[fid] = @ + 1]

\* the datafile statistics in OpenIteratorHandleDocumentMarker: the datafile
\* looked at becomes the current one; a new entry is alive in it; a replaced
\* version is no longer alive in the datafile its handle had, the new one is
\* alive in the current one, and the handle gets the current id
DocumentMarkerStats(os, st, m, fid, res) ==
  LET found == st.primary[m.key]
      cur == [os EXCEPT !.fid = fid]
  IN IF found = NoSlot
     THEN IF res # NoError THEN cur
          ELSE [cur EXCEPT !.numberAlive[fid] = @ + 1,
                           !.fidOf[request(st.mp, FALSE)] = fid]
     ELSE LET dead == [cur EXCEPT !.numberAlive[os.fidOf[found]] = @ - 1]
          IN [dead EXCEPT !.numberAlive[fid] = @ + 1, !.fidOf[found] = fid]

\* the datafile statistics in OpenIteratorHandleDeletionMarker: the removed
\* version is no longer alive in the datafile its handle had
DeletionMarkerStats(os, st, m, fid) ==
  LET found == st.primary[m.key]
      cur == [os EXCEPT !.fid = fid]
  IN IF found = NoSlot THEN cur
     ELSE [cur EXCEPT !.numberAlive[os.fidOf[found]] = @ - 1, !.fidOf[found] = 0]

\* open() up to the iteration of the markers: opening the files or creating
\* the initial indexes can fail, and open returns nullptr
openBegin ==
  /\ openState.pc = "closed"
  /\ registry.stage = "none"
  /\ \E ok \in BOOLEAN, type \in CollectionTypes :
       /\ openState' = [openState EXCEPT
                          !.pc = IF ok THEN "iterating" ELSE "nullptr"]
       /\ registry' = IF ok
                      THEN [createInitialIndexes(registry, type) EXCEPT
                              !.stage = "opening"]
                      ELSE [registry EXCEPT !.stage = "failed"]
  /\ UNCHANGED <<lockVars, primary, masterPointers, secondary, numberDocuments,
                 walTick, clock, dop, lastCall, lastOk, versionBy, idxCall, fill,
                 sp, me>>

\* OpenIterator for one marker of the datafile fid; the datafiles are gone
\* through one after the other. Its result is the handler's result turned
\* into a bool, on which iterateDatafiles goes on or stops
OpenIterator(m, fid, fault, goOn) ==
  /\ openState.pc = "iterating"
  /\ Len(openState.replayed) < MaxMarkers
  /\ fid >= openState.fid
  /\ LET r == IF m.type = "document"
              THEN OpenIteratorHandleDocumentMarker(DocState, m, fault)
              ELSE OpenIteratorHandleDeletionMarker(DocState, m)
         os == IF m.type = "document"
               THEN DocumentMarkerStats(openState, DocState, m, fid, r.res)
               ELSE DeletionMarkerStats(openState, DocState, m, fid)
     IN /\ primary' = r.st.primary
        /\ masterPointers' = r.st.mp
        /\ numberDocuments' = r.st.num
        /\ openState' = [os EXCEPT
                     !.replayed = Append(@, [type |-> m.type, key |-> m.key,
                                             rev |-> m.rev, fid |-> fid]),
                     !.revision = setLastRevision(@, m.rev, FALSE),
                     !.failed = IF r.res # NoError THEN r.res ELSE @,
                     !.pc = IF r.res = NoError \/ goOn THEN "iterating"
                            ELSE "iterated"]
  /\ UNCHANGED <<lockVars, secondary, walTick, clock, dop, lastCall, lastOk,
                 versionBy, registry, idxCall, fill,
                 sp, me>>

\* the end of IterateMarkersCollection and of open(): the statistics are
\* stored, which can throw, and IterateMarkersCollection returns no error
\* otherwise; open returns the collection unless it was given an error
openReturn ==
  /\ openState.pc \in {"iterating", "iterated"}
  /\ \E res \in {NoError, Internal} :
       openState' = [openState EXCEPT
                       !.pc = IF res = NoError THEN "collection" ELSE "nullptr"]
  /\ UNCHANGED <<lockVars, primary, masterPointers, secondary, numberDocuments,
                 walTick, clock, dop, lastCall, lastOk, versionBy, registry,
                 idxCall, fill,
                 sp, me>>

\* ------------------------------------------------------------ registry calls
\* the arguments of an index call
IdxArgs(type, attributes, unique, sparse, minWordLength, iid) ==
  [type |-> type, attributes |-> attributes, unique |-> unique,
   sparse |-> sparse, minWordLength |-> minWordLength, iid |-> iid]
NoArgs == IdxArgs("none", <<>>, FALSE, FALSE, 0, 0)

\* the index call that returned last: its arguments, the index and the
\* created flag it returned, the error it left, and the index the call before
\* it returned when that was the same call with the same arguments
NoIdxCall ==
  [kind |-> "none", args |-> NoArgs, idx |-> NoIndex, created |-> FALSE,
   errno |-> NoResult, prev |-> NoIndex]

IdxCall(kind, args, r) ==
  [kind |-> kind, args |-> args, idx |-> r.idx, created |-> r.created,
   errno |-> r.errno,
   prev |-> IF idxCall.kind = kind /\ idxCall.args = args THEN idxCall.idx
            ELSE NoIndex]

IdleFill ==
  [pc |-> "idle", i |-> 0, pool |-> FALSE,
   task |-> [i \in 2..MaxIndexes |-> "none"], joined |-> 0,
   result |-> NoError, done |-> <<>>, ret |-> NoResult]

\* the index objects addIndex is called with apart from the creation helpers
AddedIndexes ==
  {IndexObject(MaxTick + 1, "rocksdb", <<"a">>, FALSE, FALSE, 0)}

\* the attribute lists, the unique and sparse flags and the word lengths an
\* index can be asked for
IdxAttributes == {<<"a">>, <<"a", "b">>, <<"b", "a">>}
IdxFlags == BOOLEAN \X BOOLEAN
WordLengths == {1, 2}

\* what the ensure calls are made with: a hash index on two attributes,
\* unique or not; a skiplist index on the same attributes in either order; a
\* fulltext index with either word length
HashInputs == {<<<<"b", "a">>, <<u, FALSE>>>> : u \in BOOLEAN}
SkiplistInputs == {<<a, <<FALSE, FALSE>>>> : a \in {<<"a", "b">>, <<"b", "a">>}}
FulltextInputs == {<<"a", w>> : w \in WordLengths}

\* the part of the store no index call changes
idxUnchanged ==
  UNCHANGED <<lockVars, primary, masterPointers, secondary, numberDocuments,
              walTick, clock, dop, lastCall, lastOk, versionBy, openState,
              sp, me>>

\* create(): the initial indexes, then the storage engine's createCollection
create(type, ok) ==
  /\ openState.pc = "closed"
  /\ registry.stage = "none"
  /\ registry' = IF ok
                 THEN [createInitialIndexes(registry, type) EXCEPT !.stage = "open"]
                 ELSE [registry EXCEPT !.stage = "failed"]
  /\ UNCHANGED <<idxCall, fill>>
  /\ idxUnchanged

Usable == registry.stage = "open"

doAddIndex(idx) ==
  /\ Usable
  /\ Len(registry.indexes) < MaxIndexes
  /\ \A i \in DOMAIN registry.indexes : registry.indexes[i] # idx
  /\ registry' = addIndex(registry, idx)
  /\ idxCall' = [NoIdxCall EXCEPT !.kind = "addIndex", !.idx = idx]
  /\ UNCHANGED fill
  /\ idxUnchanged

doRemoveIndex(iid) ==
  /\ Usable
  /\ LET r == removeIndex(registry, iid)
     IN /\ registry' = r.reg
        /\ idxCall' = [NoIdxCall EXCEPT !.kind = "removeIndex", !.args.iid = iid,
                                        !.idx = r.found]
  /\ UNCHANGED fill
  /\ idxUnchanged

doDropIndex(iid) ==
  /\ Usable
  /\ LET r == dropIndex(registry, iid)
     IN /\ registry' = r.reg
        /\ idxCall' = [NoIdxCall EXCEPT !.kind = "dropIndex", !.args.iid = iid,
                                        !.idx = r.found, !.created = r.res]
  /\ UNCHANGED fill
  /\ idxUnchanged

\* the end of an ensure call; a call that would take an id is made only
\* while the tick is below its bound
returnIdx(kind, args, r) ==
  /\ Len(r.reg.indexes) <= MaxIndexes
  /\ r.reg.tick <= MaxTick
  /\ registry' = r.reg
  /\ idxCall' = IdxCall(kind, args, r)
  /\ UNCHANGED fill
  /\ idxUnchanged

doEnsureHashIndex(attributes, flags, f) ==
  /\ Usable
  /\ returnIdx("ensureHashIndex",
               IdxArgs("hash", attributes, flags[1], flags[2], 0, 0),
               ensureHashIndex(registry, DocState, 0, attributes, flags[2],
                               flags[1], f))

doEnsureSkiplistIndex(attributes, flags, f) ==
  /\ Usable
  /\ returnIdx("ensureSkiplistIndex",
               IdxArgs("skiplist", attributes, flags[1], flags[2], 0, 0),
               ensureSkiplistIndex(registry, DocState, 0, attributes, flags[2],
                                   flags[1], f))

doEnsureFulltextIndex(attribute, minWordLength, f) ==
  /\ Usable
  /\ returnIdx("ensureFulltextIndex",
               IdxArgs("fulltext", <<attribute>>, FALSE, FALSE, minWordLength, 0),
               ensureFulltextIndex(registry, DocState, 0, attribute, minWordLength, f))

\* the arguments of a lookup call; sparsity is -1 (any), 0 or 1
LookupArgs(type, attributes, sparsity, unique) ==
  [type |-> type, attributes |-> attributes, sparsity |-> sparsity,
   unique |-> unique]

\* the attribute lists and sparsities an index is looked up with
LookupAttributes == {<<"a">>, <<"a", "b">>, <<"b", "a">>, <<"a", "c">>}
Sparsities == {-1, 0, 1}

\* the end of a lookup call: the registry is as it was
returnLookup(type, attributes, sparsity, unique, idx) ==
  /\ idxCall' = [NoIdxCall EXCEPT !.kind = "lookup",
                                  !.args = LookupArgs(type, attributes, sparsity,
                                                      unique),
                                  !.idx = idx]
  /\ UNCHANGED <<registry, fill>>
  /\ idxUnchanged

doLookupHashIndex(attributes, sparsity, unique) ==
  /\ Usable
  /\ returnLookup("hash", attributes, sparsity, unique,
                  lookupHashIndex(registry, attributes, sparsity, unique))

doLookupSkiplistIndex(attributes, sparsity, unique) ==
  /\ Usable
  /\ returnLookup("skiplist", attributes, sparsity, unique,
                  lookupSkiplistIndex(registry, attributes, sparsity, unique))

doLookupRocksDBIndex(attributes, sparsity, unique) ==
  /\ Usable
  /\ returnLookup("rocksdb", attributes, sparsity, unique,
                  lookupRocksDBIndex(registry, attributes, sparsity, unique))

\* ------------------------------------------------------------ open(): indexes
\* the index descriptions the storage engine keeps for the collection
PersistedIndexes ==
  <<IdxArgs("hash", <<"a">>, TRUE, FALSE, 0, 1),
    IdxArgs("skiplist", <<"a">>, FALSE, FALSE, 0, 2),
    IdxArgs("fulltext", <<"a">>, FALSE, FALSE, 1, 3)>>

RECURSIVE sublist(_, _)
sublist(s, keep) ==
  IF s = <<>> THEN <<>>
  ELSE LET rest == sublist(SubSeq(s, 1, Len(s) - 1), keep)
       IN IF Len(s) \in keep THEN Append(rest, s[Len(s)]) ELSE rest

\* the lists of descriptions getCollectionInfo returns: some of the
\* descriptions, in the order of their ids
Descriptions ==
  {sublist(PersistedIndexes, keep) : keep \in SUBSET DOMAIN PersistedIndexes}

\* TRI_UpdateTickServer
updateTick(reg, iid) == [reg EXCEPT !.tick = IF iid > @ THEN iid ELSE @]

\* openIndex / indexFromVelocyPack: the index a description asks for is
\* created unless it is there; an error is logged and the index left out
openIndex(reg, st, d) ==
  LET reg1 == updateTick(reg, d.iid)
  IN IF d.type = "hash"
     THEN CreateHashIndexDocumentCollection(reg1, st, d.attributes, d.iid, d.sparse,
                                            d.unique, NoIdxFault).reg
     ELSE IF d.type = "skiplist"
     THEN CreateSkiplistIndexDocumentCollection(reg1, st, d.attributes, d.iid,
                                                d.sparse, d.unique, NoIdxFault).reg
     ELSE IF d.type = "fulltext"
     THEN IF LookupFulltextIndexDocumentCollection(reg1, d.attributes[1],
                                                   d.minWordLength) # NoIndex
          THEN reg1
          ELSE CreateFulltextIndexDocumentCollection(
                 reg1, st, d.attributes[1], d.minWordLength, d.iid, NoIdxFault).reg
     ELSE reg1

RECURSIVE detectLoop(_, _, _, _)
detectLoop(i, reg, st, descs) ==
  IF i > Len(descs) THEN reg
  ELSE detectLoop(i + 1, openIndex(reg, st, descs[i]), st, descs)

\* a detection that leaves the filling of secondary indexes switched on
detectIndexes_Mut(reg, st, descs) ==
  detectLoop(1, [reg EXCEPT !.useSecondaryIndexes = TRUE], st, descs)

\* detectIndexes: every description of the collection is opened
detectIndexes(reg, st, descs) == detectLoop(1, reg, st, descs)

\* open() after the markers: the index definitions are loaded with the
\* secondary indexes switched off; an exception makes open return nullptr.
\* Unless the server is in recovery, fillIndexes follows
openDetectIndexes(descs, throws, inRecovery) ==
  /\ openState.pc = "collection"
  /\ registry.stage = "opening"
  /\ Len(registry.indexes) + Len(descs) <= MaxIndexes
  /\ LET old == registry.useSecondaryIndexes
         off == [registry EXCEPT !.useSecondaryIndexes = FALSE]
         reg == [detectIndexes(off, DocState, descs) EXCEPT
                   !.useSecondaryIndexes = old]
     IN registry' = [reg EXCEPT !.stage = IF throws THEN "failed"
                                          ELSE IF inRecovery THEN "open"
                                          ELSE "filling"]
  /\ UNCHANGED <<idxCall, fill>>
  /\ idxUnchanged

NumIndexes == Len(registry.indexes)

\* result.compare_exchange_strong(expected, res) with expected = no error
compareExchange(result, res) ==
  IF res # NoError /\ result = NoError THEN res ELSE result

\* a result that every failing task stores
latch_Mut(f, res) ==
  [f EXCEPT !.result = IF res # NoError THEN res ELSE @,
            !.done = Append(@, res)]

\* the callback of a fill task up to barrier.join(): the error is latched
latch(f, res) ==
  [f EXCEPT !.result = compareExchange(@, res), !.done = Append(@, res)]

\* fillIndexes up to the loop: with the primary index alone there is nothing
\* to fill
fillBegin(pool) ==
  /\ registry.stage = "filling"
  /\ fill.pc = "idle"
  /\ fill' = IF NumIndexes = 1
             THEN [fill EXCEPT !.pc = "returned", !.ret = NoError]
             ELSE [fill EXCEPT !.pc = "loop", !.i = 2, !.pool = pool]
  /\ UNCHANGED <<registry, idxCall>>
  /\ idxUnchanged

\* one round of the loop over the secondary indexes: the index goes to the
\* pool, or, the last one or without a pool, is filled by the calling thread
fillLoop(enqueueFails, fault) ==
  /\ fill.pc = "loop"
  /\ fill.i <= NumIndexes
  /\ IF fill.pool /\ fill.i # NumIndexes
     THEN /\ fill' = IF enqueueFails
                     THEN [latch(fill, Internal) EXCEPT
                             !.task[fill.i] = "joined", !.joined = @ + 1,
                             !.i = @ + 1]
                     ELSE [fill EXCEPT !.task[fill.i] = "queued", !.i = @ + 1]
          /\ UNCHANGED registry
     ELSE LET r == fillIndex(registry, DocState, registry.indexes[fill.i], TRUE,
                             fault)
          IN /\ registry' = [registry EXCEPT !.indexes[fill.i] = r.idx]
             /\ fill' = [latch(fill, r.res) EXCEPT
                           !.task[fill.i] = "joined", !.joined = @ + 1,
                           !.i = @ + 1]
  /\ UNCHANGED idxCall
  /\ idxUnchanged

\* IndexFiller::operator() on a pool thread: the index is filled and the
\* callback latches the result
indexFiller(i, fault) ==
  /\ fill.pc \in {"loop", "barrier"}
  /\ i \in DOMAIN fill.task
  /\ fill.task[i] = "queued"
  /\ LET r == fillIndex(registry, DocState, registry.indexes[i], TRUE, fault)
     IN /\ registry' = [registry EXCEPT !.indexes[i] = r.idx]
        /\ fill' = [latch(fill, r.res) EXCEPT !.task[i] = "filled"]
  /\ UNCHANGED idxCall
  /\ idxUnchanged

\* the end of the callback: barrier.join()
barrierJoin(i) ==
  /\ i \in DOMAIN fill.task
  /\ fill.task[i] = "filled"
  /\ fill' = [fill EXCEPT !.task[i] = "joined", !.joined = @ + 1]
  /\ UNCHANGED <<registry, idxCall>>
  /\ idxUnchanged

\* the loop is done: the calling thread enters the barrier's destructor
fillBarrier ==
  /\ fill.pc = "loop"
  /\ fill.i > NumIndexes
  /\ fill' = [fill EXCEPT !.pc = "barrier"]
  /\ UNCHANGED <<registry, idxCall>>
  /\ idxUnchanged

\* Barrier::~Barrier: all n threads have joined
barrierDone(f, n) == f.joined = n

\* the barrier has let the calling thread go: fillIndexes returns the latched
\* result
fillReturn ==
  /\ fill.pc = "barrier"
  /\ barrierDone(fill, NumIndexes - 1)
  /\ fill' = [fill EXCEPT !.pc = "returned", !.ret = fill.result]
  /\ UNCHANGED <<registry, idxCall>>
  /\ idxUnchanged

\* the end of open(): the result of fillIndexes is not looked at, the
\* collection is returned
openCollection ==
  /\ registry.stage = "filling"
  /\ fill.pc = "returned"
  /\ fill' = IdleFill
  /\ registry' = [registry EXCEPT !.stage = "open"]
  /\ UNCHANGED idxCall
  /\ idxUnchanged

\* ------------------------------------------------------------ shortest path
\* the vertices of the graph and the edges the cursors can yield: directed
\* edges between any two vertices, and one from a vertex to itself
Vertices == 1..NumVertices
Edges == {x \in Vertices \X Vertices : x[1] # x[2]} \cup {<<1, 1>>}
NoVertex == 0
\* a vertex without a snippet; the start and the end vertex have the snippet
\* nullptr
Absent == -1

RECURSIVE ascending(_)
ascending(S) ==
  IF S = {} THEN <<>>
  ELSE LET least == CHOOSE x \in S : \A y \in S : x <= y
       IN <<least>> \o ascending(S \ {least})

\* expandVertex: the other ends of the edges the cursor of the direction
\* yields for the vertex, an edge back to the vertex itself left out
expandVertex(E, backward, vertex) ==
  ascending({n \in Vertices :
               /\ n # vertex
               /\ IF backward THEN <<n, vertex>> \in E ELSE <<vertex, n>> \in E})

\* the (v, neighbor) pairs in the order the two loops of expandClosure go
\* through them
RECURSIVE closurePairs(_, _, _)
closurePairs(E, backward, closure) ==
  IF closure = <<>> THEN <<>>
  ELSE LET v == Head(closure)
           ns == expandVertex(E, backward, v)
       IN [i \in 1..Len(ns) |-> <<v, ns[i]>>]
            \o closurePairs(E, backward, Tail(closure))

\* the loops of expandClosure from pair i on
RECURSIVE expandLoop(_, _, _, _, _, _, _)
expandLoop(pairs, i, source, target, result, next, maxPaths) ==
  IF i > Len(pairs)
  THEN [source |-> source, result |-> result, next |-> next, full |-> FALSE]
  ELSE LET v == pairs[i][1]
           n == pairs[i][2]
       IN IF source[n] # Absent
          THEN expandLoop(pairs, i + 1, source, target, result, next, maxPaths)
          ELSE LET source1 == [source EXCEPT ![n] = v]
                   result1 == IF target[n] # Absent THEN Append(result, n)
                              ELSE result
               IN IF target[n] # Absent /\ Len(result1) >= maxPaths
                  THEN [source |-> source1, result |-> result1, next |-> next,
                        full |-> TRUE]
                  ELSE expandLoop(pairs, i + 1, source1, target, result1,
                                  Append(next, n), maxPaths)

\* an expansion that stops at the first vertex it has not seen
expandClosure_Mut(E, sourceClosure, sourceSnippets, targetSnippets, isBackward, maxPaths) ==
  LET pairs == closurePairs(E, isBackward, sourceClosure)
      fresh == {i \in DOMAIN pairs : sourceSnippets[pairs[i][2]] = Absent}
      i == CHOOSE k \in fresh : \A j \in fresh : k <= j
  IN IF fresh = {}
     THEN [found |-> FALSE, closure |-> <<>>, snippets |-> sourceSnippets,
           result |-> <<>>]
     ELSE [found |-> TRUE, closure |-> sourceClosure,
           snippets |-> [sourceSnippets EXCEPT ![pairs[i][2]] = pairs[i][1]],
           result |-> <<pairs[i][2]>>]

\* expandClosure: every vertex of the closure is expanded; a neighbour seen
\* for the first time gets a snippet that names the vertex it was reached
\* from; the ones the other side has found are the result, and the call
\* returns true with them, at once when there are maxPaths of them;
\* otherwise the new vertices are the closure
expandClosure(E, sourceClosure, sourceSnippets, targetSnippets, isBackward, maxPaths) ==
  LET r == expandLoop(closurePairs(E, isBackward, sourceClosure), 1,
                      sourceSnippets, targetSnippets, <<>>, <<>>, maxPaths)
  IN IF r.full \/ Len(r.result) > 0
     THEN [found |-> TRUE, closure |-> sourceClosure, snippets |-> r.source,
           result |-> r.result]
     ELSE [found |-> FALSE, closure |-> r.next, snippets |-> r.source,
           result |-> <<>>]

\* the two loops of fillResult: from n along the snippets of the left side
\* to the start, the vertices and edges pushed to the front
RECURSIVE leftPath(_, _, _)
leftPath(leftFound, it, path) ==
  IF leftFound[it] \in {Absent, NoVertex} THEN path
  ELSE leftPath(leftFound, leftFound[it],
                [vertices |-> <<leftFound[it]>> \o path.vertices,
                 edges |-> <<<<leftFound[it], it>>>> \o path.edges])

\* and along the snippets of the right side to the end, pushed to the back
RECURSIVE rightPath(_, _, _)
rightPath(rightFound, it, path) ==
  IF rightFound[it] \in {Absent, NoVertex} THEN path
  ELSE rightPath(rightFound, rightFound[it],
                 [vertices |-> Append(path.vertices, rightFound[it]),
                  edges |-> Append(path.edges, <<it, rightFound[it]>>)])

fillResult(n, leftFound, rightFound) ==
  rightPath(rightFound, n,
            leftPath(leftFound, n, [vertices |-> <<n>>, edges |-> <<>>]))

NoSnippets == [v \in Vertices |-> Absent]

\* the finder before its first call
IdleFinder ==
  [pc |-> "idle", E |-> {}, start |-> NoVertex, end |-> NoVertex, maxPaths |-> 1,
   leftClosure |-> <<>>, rightClosure |-> <<>>,
   leftFound |-> NoSnippets, rightFound |-> NoSnippets,
   vertices |-> <<>>, edges |-> <<>>, ret |-> FALSE]

\* the part of the state the finder and the executor leave alone
pathUnchanged ==
  UNCHANGED <<lockVars, primary, masterPointers, secondary, numberDocuments,
              walTick, clock, dop, lastCall, lastOk, versionBy, openState,
              registry, idxCall, fill>>

\* shortestPath(s, e) up to the loop, on the graph the cursors read: the
\* result is cleared; equal vertices are the result at once
shortestPath(E, s, e, maxPaths) ==
  /\ sp.pc \in {"idle", "returned"}
  /\ sp' = IF s = e
           THEN [IdleFinder EXCEPT !.pc = "returned", !.E = E, !.start = s,
                                   !.end = e, !.maxPaths = maxPaths,
                                   !.leftFound = sp.leftFound,
                                   !.rightFound = sp.rightFound,
                                   !.vertices = <<s>>, !.ret = TRUE]
           ELSE [IdleFinder EXCEPT !.pc = "loop", !.E = E, !.start = s,
                                   !.end = e, !.maxPaths = maxPaths,
                                   !.leftClosure = <<s>>, !.rightClosure = <<e>>,
                                   !.leftFound = [NoSnippets EXCEPT ![s] = NoVertex],
                                   !.rightFound = [NoSnippets EXCEPT ![e] = NoVertex]]
  /\ UNCHANGED me
  /\ pathUnchanged

\* one round of the loop: the smaller closure is expanded, the right one
\* when they are of the same size; a vertex found from both sides ends the
\* call with the path through it, and clearVisited
shortestPathLoop ==
  /\ sp.pc = "loop"
  /\ sp.leftClosure # <<>> /\ sp.rightClosure # <<>>
  /\ LET left == Len(sp.leftClosure) < Len(sp.rightClosure)
         r == IF left
              THEN expandClosure(sp.E, sp.leftClosure, sp.leftFound,
                                 sp.rightFound, FALSE, sp.maxPaths)
              ELSE expandClosure(sp.E, sp.rightClosure, sp.rightFound,
                                 sp.leftFound, TRUE, sp.maxPaths)
         leftFound == IF left THEN r.snippets ELSE sp.leftFound
         rightFound == IF left THEN sp.rightFound ELSE r.snippets
         path == fillResult(Head(r.result), leftFound, rightFound)
     IN sp' = IF r.found
              THEN [sp EXCEPT !.pc = "returned", !.ret = TRUE,
                              !.vertices = path.vertices, !.edges = path.edges,
                              !.leftFound = NoSnippets, !.rightFound = NoSnippets]
              ELSE [sp EXCEPT !.leftFound = leftFound, !.rightFound = rightFound,
                              !.leftClosure = IF left THEN r.closure ELSE @,
                              !.rightClosure = IF left THEN @ ELSE r.closure]
  /\ UNCHANGED me
  /\ pathUnchanged

\* a closure is empty: shortestPath returns false
shortestPathFalse ==
  /\ sp.pc = "loop"
  /\ sp.leftClosure = <<>> \/ sp.rightClosure = <<>>
  /\ sp' = [sp EXCEPT !.pc = "returned", !.ret = FALSE]
  /\ UNCHANGED me
  /\ pathUnchanged

\* ------------------------------------------------- modification executor
\* ExecutionState
ExecutionStates == {"HASMORE", "DONE", "WAITING"}

\* no block: the shared pointer fetchBlock returns is null
NoBlock == 0

\* what the upstream of the fetcher returns to one fetchBlock call: WAITING
\* and no block, or a block; of a block, only what the modifier makes of it
\* counts: out is the number of doOutput calls the block takes (0: the
\* modifier has nothing to output and doModifications returns false)
Fetches == [wait : {TRUE}, out : {0}] \cup [wait : {FALSE}, out : 0..MaxRows]

\* the upstreams: what the first MaxFetches calls or fewer return; every
\* later call returns DONE and no block
Upstreams == UNION {[1..n -> Fetches] : n \in 0..MaxFetches}

\* no executor constructed
NoExecutor ==
  [pc |-> "none", producesResults |-> FALSE, prepared |-> FALSE,
   block |-> NoBlock, pending |-> 0, up |-> <<>>, lastDone |-> FALSE,
   upstreamState |-> "HASMORE", fetched |-> <<>>, modified |-> <<>>,
   written |-> 0, log |-> <<>>, ret |-> "none"]

\* everything but the executor
execUnchanged == pathUnchanged /\ UNCHANGED sp

\* ModificationExecutor(fetcher, infos): _prepared is false; the fetcher has
\* fetched nothing, its upstream state is HASMORE
construct(producesResults, up, lastDone) ==
  /\ me.pc = "none"
  /\ me' = [NoExecutor EXCEPT !.pc = "ready", !.producesResults = producesResults,
                              !.up = up, !.lastDone = lastDone]
  /\ execUnchanged

\* _fetcher.fetchBlock(): the state and the block the upstream returns next;
\* the blocks are numbered in the order they are fetched; the last block
\* comes with DONE when lastDone is set, and with HASMORE otherwise
fetchBlock(m) ==
  IF m.up = <<>>
  THEN [state |-> "DONE", block |-> NoBlock, out |-> 0]
  ELSE IF Head(m.up).wait
  THEN [state |-> "WAITING", block |-> NoBlock, out |-> 0]
  ELSE [state |-> IF Len(m.up) = 1 /\ m.lastDone THEN "DONE" ELSE "HASMORE",
        block |-> Len(m.fetched) + 1, out |-> Head(m.up).out]

\* _modifier.doModifications(_infos, stats) on the block just fetched: it
\* returns whether the modifier has a row to output
doModifications(m, out) ==
  [m EXCEPT !.modified = Append(@, m.block), !.pending = out,
            !.prepared = out > 0]

\* _modifier.doOutput(_infos, output): one row is written; it returns
\* whether the block has more (pending > 0 afterwards)
doOutput(m) == [m EXCEPT !.written = @ + 1, !.pending = @ - 1]

\* a loop that fetches a block although the modifier enters it prepared
RECURSIVE produceRowLoop_Mut(_)
produceRowLoop_Mut(m) ==
  IF m.upstreamState = "DONE" \/ (m.prepared /\ m.log # <<>>) THEN m
  ELSE LET r == fetchBlock(m)
           f == [m EXCEPT !.up = IF m.up = <<>> THEN <<>> ELSE Tail(m.up),
                          !.upstreamState = r.state,
                          !.block = r.block,
                          !.log = Append(@, [state |-> r.state,
                                             block |-> r.block]),
                          !.fetched = IF r.block # NoBlock
                                      THEN Append(@, r.block) ELSE @]
           d == doModifications(f, r.out)
       IN IF r.state = "WAITING" THEN [f EXCEPT !.ret = "WAITING"]
          ELSE IF r.block = NoBlock THEN [f EXCEPT !.ret = r.state]
          ELSE produceRowLoop_Mut(
                 IF ~m.producesResults THEN [d EXCEPT !.prepared = FALSE]
                 ELSE d)

\* the loop of produceRow: while the modifier is not prepared and the
\* upstream is not DONE, a block is fetched and made the modifier's; the call
\* returns WAITING on WAITING, and the state (DONE) when there is no block;
\* otherwise doModifications prepares the modifier, and _prepared is reset
\* when the executor produces no results. ret stays "none" when the loop
\* ends without returning
RECURSIVE produceRowLoop(_)
produceRowLoop(m) ==
  IF m.prepared \/ m.upstreamState = "DONE" THEN m
  ELSE LET r == fetchBlock(m)
           f == [m EXCEPT !.up = IF m.up = <<>> THEN <<>> ELSE Tail(m.up),
                          !.upstreamState = r.state,
                          !.block = r.block,
                          !.log = Append(@, [state |-> r.state,
                                             block |-> r.block]),
                          !.fetched = IF r.block # NoBlock
                                      THEN Append(@, r.block) ELSE @]
           d == doModifications(f, r.out)
       IN IF r.state = "WAITING" THEN [f EXCEPT !.ret = "WAITING"]
          ELSE IF r.block = NoBlock THEN [f EXCEPT !.ret = r.state]
          ELSE produceRowLoop(
                 IF ~m.producesResults THEN [d EXCEPT !.prepared = FALSE]
                 ELSE d)

\* produceRow(output): the loop; then, when the modifier is prepared, one
\* doOutput: HASMORE when the block has more, else _prepared is reset; the
\* call returns the upstream state of the fetcher. log is what the fetches
\* of this call returned
produceRow ==
  /\ me.pc = "ready"
  /\ LET l == produceRowLoop([me EXCEPT !.log = <<>>, !.ret = "none"])
         o == doOutput(l)
     IN me' = IF l.ret # "none" THEN l
              ELSE IF l.prepared
              THEN IF o.pending > 0 THEN [o EXCEPT !.ret = "HASMORE"]
                   ELSE [o EXCEPT !.prepared = FALSE, !.ret = o.upstreamState]
              ELSE [l EXCEPT !.ret = l.upstreamState]
  /\ execUnchanged

\* ------------------------------------------------------------ specification
\* ------------------------------------------------------------ restore calls
\* the _rev attribute of a restored document: none (or no string), a string
\* of an earlier epoch, a string of the current format that stands for rid
RevAttributes ==
  {[form |-> "none", rid |-> NoRev], [form |-> "old", rid |-> NoRev]}
    \cup {[form |-> "current", rid |-> r] : r \in Revs}

\* TRI_StringToRid(string, isOld): the revision the string stands for, and
\* whether the string has the format of an earlier epoch
TRI_StringToRid(a) == [rid |-> a.rid, isOld |-> a.form = "old"]

\* a revision choice that turns a string of an earlier epoch down
revisionId_Mut(kind, isRestore, oldRev, minted) ==
  IF ~isRestore THEN [res |-> NoError, rev |-> minted, fresh |-> TRUE]
  ELSE IF oldRev.form = "none" /\ kind = "remove"
  THEN [res |-> NoError, rev |-> minted, fresh |-> TRUE]
  ELSE IF oldRev.form = "none" \/ TRI_StringToRid(oldRev).isOld
  THEN [res |-> DocumentRevBad, rev |-> NoRev, fresh |-> FALSE]
  ELSE [res |-> NoError, rev |-> TRI_StringToRid(oldRev).rid, fresh |-> FALSE]

\* the revision a call gives the version it writes: without isRestore the
\* clock's next value; with isRestore the value of the _rev string, the
\* clock's next value when the string is of an earlier epoch, and when _rev
\* is no string an error (insert, update, replace) or the clock's next value
\* (remove)
revisionId(kind, isRestore, oldRev, minted) ==
  IF ~isRestore THEN [res |-> NoError, rev |-> minted, fresh |-> TRUE]
  ELSE IF oldRev.form = "none"
  THEN IF kind = "remove"
       THEN [res |-> NoError, rev |-> minted, fresh |-> TRUE]
       ELSE [res |-> DocumentRevBad, rev |-> NoRev, fresh |-> FALSE]
  ELSE IF TRI_StringToRid(oldRev).isOld
  THEN [res |-> NoError, rev |-> minted, fresh |-> TRUE]
  ELSE [res |-> NoError, rev |-> TRI_StringToRid(oldRev).rid, fresh |-> FALSE]

\* a call with options.isRestore, up to the write lock: it ends at once when
\* the revision cannot be taken from _rev, and reads the clock only when it
\* needs a new value
restoreBegin(t, kind, oldRev) ==
  LET r == revisionId(kind, TRUE, oldRev, clock + 1)
  IN /\ dop[t].pc = "idle"
     /\ walTick < MaxTick
     /\ r.fresh => clock < MaxRev
     /\ IF r.res # NoError
        THEN /\ lastCall' = [NoCall EXCEPT !.kind = kind, !.result = r.res,
                                           !.restore = oldRev.form]
             /\ UNCHANGED <<clock, dop>>
        ELSE /\ clock' = IF r.fresh THEN clock + 1 ELSE clock
             /\ dop' = [dop EXCEPT ![t] = [pc |-> "minted", kind |-> kind,
                                           rev |-> r.rev, restore |-> oldRev.form]]
             /\ UNCHANGED lastCall
     /\ UNCHANGED <<lockVars, primary, masterPointers, secondary, numberDocuments,
                    walTick, lastOk, versionBy, openState, registry, idxCall, fill,
                    sp, me>>

Init ==
  /\ lockState = [c \in Colls |-> [t \in Threads |-> "none"]]
  /\ active = [c \in Colls |-> [tids |-> {}, isWrite |-> FALSE]]
  /\ blocked = [t \in Threads |-> NotBlocked]
  /\ th = [t \in Threads |-> IdleThread]
  /\ primary = [k \in Keys |-> NoSlot]
  /\ masterPointers = [s \in Slots |-> FreeSlot]
  /\ secondary = [i \in Secs |-> {}]
  /\ numberDocuments = 0
  /\ walTick = 0
  /\ clock = 0
  /\ dop = [t \in Threads |-> IdleDoc]
  /\ lastCall = NoCall
  /\ lastOk = [k \in Keys |-> "none"]
  /\ versionBy = [k \in Keys |-> "none"]
  /\ openState = ClosedState
  /\ registry = NoRegistry
  /\ idxCall = NoIdxCall
  /\ fill = IdleFill
  /\ sp = IdleFinder
  /\ me = NoExecutor

Next ==
  \/ \E t \in Threads, c \in Colls : beginRead(t, c)
  \/ \E t \in Threads, c \in Colls : beginWrite(t, c)
  \/ \E t \in Threads : registerUntimed(t)
  \/ \E t \in Threads, c \in Colls : endRead(t, c)
  \/ \E t \in Threads, c \in Colls : endWrite(t, c)
  \/ \E t \in Threads, c \in Colls, a \in TimedArgs : beginReadTimed(t, c, a[1], a[2])
  \/ \E t \in Threads, c \in Colls, a \in TimedArgs : beginWriteTimed(t, c, a[1], a[2])
  \/ \E t \in Threads : timedLoop(t)
  \/ \E t \in Threads : timedRegister(t)

Spec == Init /\ [][Next]_vars

DocNext ==
  \/ \E t \in Threads, kind \in Kinds \ {"insert"} : hybridLogicalClock(t, kind)
  \/ \E t \in Threads, type \in CollectionTypes, from \in EdgeAttributes,
        to \in EdgeAttributes : insertBegin(t, type, from, to)
  \/ \E t \in Threads : collectionWriteLocker(t)
  \/ \E t \in Threads : doInsert(t)
  \/ \E t \in Threads : doUpdate(t)
  \/ \E t \in Threads : doReplace(t)
  \/ \E t \in Threads : doRemove(t)
  \/ \E t \in Threads : doRead(t)

DocSpec == Init /\ [][DocNext]_vars

\* the calls of the shortest path finder: the first on any graph, the later
\* ones on the same graph
PathNext ==
  \/ /\ sp.pc = "idle"
     /\ \E E \in SUBSET Edges, s \in Vertices, e \in Vertices,
           maxPaths \in 1..MaxPaths : shortestPath(E, s, e, maxPaths)
  \/ /\ sp.pc = "returned"
     /\ \E s \in Vertices, e \in Vertices : shortestPath(sp.E, s, e, sp.maxPaths)
  \/ shortestPathLoop
  \/ shortestPathFalse

PathSpec == Init /\ [][PathNext]_vars

\* one executor on any upstream, and its produceRow calls
ModNext ==
  \/ /\ me.pc = "none"
     /\ \E producesResults \in BOOLEAN, up \in Upstreams, lastDone \in BOOLEAN :
          construct(producesResults, up, lastDone)
  \/ produceRow

ModSpec == Init /\ [][ModNext]_vars

\* restores only: every call has options.isRestore and comes from one of the
\* restoring threads
RestoreNext ==
  \/ \E t \in 1..NumRestorers, kind \in Kinds, oldRev \in RevAttributes :
       restoreBegin(t, kind, oldRev)
  \/ \E t \in Threads : collectionWriteLocker(t)
  \/ \E t \in Threads : doInsert(t)
  \/ \E t \in Threads : doUpdate(t)
  \/ \E t \in Threads : doReplace(t)
  \/ \E t \in Threads : doRemove(t)

RestoreSpec == Init /\ [][RestoreNext]_vars

RecNext ==
  \/ openBegin
  \/ \E m \in Markers, fid \in Fids, fault \in MarkerFaults, goOn \in BOOLEAN :
       OpenIterator(m, fid, fault, goOn)
  \/ openReturn

RecSpec == Init /\ [][RecNext]_vars

\* the datafile the index calls find replayed: two documents with the same
\* value of the indexed attribute
IdxDatafile ==
  <<[type |-> "document", key |-> "k1", rev |-> 1, val |-> 1],
    [type |-> "document", key |-> "k2", rev |-> 2, val |-> 1]>>

\* index lookups on a collection whose indexes are created by the ensure
\* calls and addIndex
LookupNext ==
  \/ \E type \in CollectionTypes, ok \in BOOLEAN : create(type, ok)
  \/ \E idx \in AddedIndexes : doAddIndex(idx)
  \/ \E in \in HashInputs : doEnsureHashIndex(in[1], in[2], NoIdxFault)
  \/ \E in \in SkiplistInputs : doEnsureSkiplistIndex(in[1], in[2], NoIdxFault)
  \/ \E a \in LookupAttributes, sparsity \in Sparsities, u \in BOOLEAN :
       doLookupHashIndex(a, sparsity, u)
  \/ \E a \in LookupAttributes, sparsity \in Sparsities, u \in BOOLEAN :
       doLookupSkiplistIndex(a, sparsity, u)
  \/ \E a \in LookupAttributes, sparsity \in Sparsities, u \in BOOLEAN :
       doLookupRocksDBIndex(a, sparsity, u)

LookupSpec == Init /\ [][LookupNext]_vars

IdxNext ==
  \/ \E type \in CollectionTypes, ok \in BOOLEAN : create(type, ok)
  \/ openBegin
  \/ /\ Len(openState.replayed) < Len(IdxDatafile)
     /\ OpenIterator(IdxDatafile[Len(openState.replayed) + 1], 1, "none", TRUE)
  \/ openReturn
  \/ \E descs \in Descriptions, throws \in BOOLEAN, inRecovery \in BOOLEAN :
       openDetectIndexes(descs, throws, inRecovery)
  \/ \E pool \in BOOLEAN : fillBegin(pool)
  \/ \E enqueueFails \in BOOLEAN, fault \in {NoError, OutOfMemory} :
       fillLoop(enqueueFails, fault)
  \/ \E i \in 2..MaxIndexes, fault \in {NoError, OutOfMemory} :
       indexFiller(i, fault)
  \/ \E i \in 2..MaxIndexes : barrierJoin(i)
  \/ fillBarrier
  \/ fillReturn
  \/ openCollection
  \/ \E idx \in AddedIndexes : doAddIndex(idx)
  \/ \E iid \in 0..CollectionId : doRemoveIndex(iid)
  \/ \E iid \in 0..CollectionId : doDropIndex(iid)
  \/ \E in \in HashInputs, f \in IdxFaults : doEnsureHashIndex(in[1], in[2], f)
  \/ \E in \in SkiplistInputs, f \in IdxFaults :
       doEnsureSkiplistIndex(in[1], in[2], f)
  \/ \E in \in FulltextInputs, f \in IdxFaults :
       doEnsureFulltextIndex(in[1], in[2], f)

IdxSpec == Init /\ [][IdxNext]_vars

\* ------------------------------------------------------------ lock properties
Lockable == Colls \ makeNolockHeaders
Polling(t) == th[t].pc = "poll"
TimedCall(t) == th[t].pc \in {"poll", "locked"}
HoldsWrite(t, c) == lockState[c][t] = "write" /\ t \in active[c].tids

\* t and u each hold the write lock of one collection and each is inside
\* beginWriteTimed on the collection of the other
CrossWait(t, u) ==
  \E c, d \in Lockable :
    /\ c # d /\ t # u
    /\ HoldsWrite(t, c) /\ HoldsWrite(u, d)
    /\ Polling(t) /\ th[t].op = "beginWriteTimed" /\ th[t].coll = d
    /\ Polling(u) /\ th[u].op = "beginWriteTimed" /\ th[u].coll = c

\* C1: on a collection outside the no-lock set a thread that holds the write
\* lock is the only thread that holds the lock at all, in every state of every
\* interleaving of the six lock operations; readers are not excluded by readers
C1_MutualExclusion ==
  \A c \in Lockable : \A t, u \in Threads :
    (t # u /\ lockState[c][t] = "write") => lockState[c][u] = "none"

\* two threads hold the read lock of one collection, both calls have returned
C1_Witness ==
  \E c \in Lockable : \A t \in Threads :
    /\ lockState[c][t] = "read" /\ t \in active[c].tids
    /\ th[t].pc = "idle" /\ th[t].result = NoError

\* C2 as stated: while the two calls of a cross wait are both in progress,
\* neither of them leaves by LockTimeout (one of them returns Deadlock first)
C2_NoTimeoutInCrossWait ==
  [][\A t, u \in Threads :
       CrossWait(t, u) => th'[t].result # LockTimeout]_vars

\* C2, amended: a thread that polls after a failed attempt is registered as
\* blocked on the collection; in a cross wait the two threads are never both
\* registered, and the thread that makes its first failed attempt while the
\* other one is registered returns from that attempt with Deadlock, or with
\* OutOfMemory when the detector throws
C2_DeadlockInCrossWait ==
  /\ [](\A t \in Threads :
          (Polling(t) /\ th[t].waited > 0)
            => /\ th[t].wasBlocked
               /\ blocked[t] = [coll |-> th[t].coll, isWrite |-> IsWriteOp(th[t].op)])
  /\ [](\A t, u \in Threads :
          CrossWait(t, u) => ~(th[t].wasBlocked /\ th[u].wasBlocked))
  /\ [][\A t, u \in Threads :
          (CrossWait(t, u) /\ th[u].wasBlocked /\ th'[t] # th[t])
            => /\ th'[t].pc = "idle"
               /\ th'[t].result \in {Deadlock, OutOfMemory}]_vars

\* one thread of a cross wait has returned Deadlock from its first failed
\* attempt, the other is still polling, registered as blocked
C2_Witness ==
  \E t, u \in Threads, c, d \in Lockable :
    /\ c # d /\ t # u
    /\ HoldsWrite(t, c) /\ HoldsWrite(u, d)
    /\ th[t].pc = "idle" /\ th[t].result = Deadlock /\ th[t].exit = "first"
    /\ th[t].op = "beginWriteTimed" /\ th[t].coll = d
    /\ Polling(u) /\ th[u].coll = c /\ th[u].wasBlocked /\ blocked[u].coll = c

C4_NotBlockedOnReturn ==
  [][\A t \in Threads :
       (/\ TimedCall(t) /\ th'[t].pc = "idle"
        /\ th'[t].result \in {NoError, Deadlock, LockTimeout, OutOfMemory})
         => blocked'[t].coll # th[t].coll]_vars

\* C5: a timed call that returns Deadlock or LockTimeout never held the lock
\* of the collection and returns without it, and no step of the call changes
\* the primary index, a secondary index, a handle or the document counter
C5_AbortWithoutLock ==
  /\ [](\A t \in Threads : Polling(t) => lockState[th[t].coll][t] = "none")
  /\ [][\A t \in Threads :
          (Polling(t) /\ th'[t] # th[t])
            => /\ UNCHANGED <<primary, masterPointers, secondary, numberDocuments>>
               /\ (th'[t].result \in {Deadlock, LockTimeout})
                    => /\ th'[t].pc = "idle"
                       /\ lockState'[th[t].coll][t] = "none"
                       /\ t \notin active'[th[t].coll].tids]_vars

\* a timed write call has returned LockTimeout on a collection another thread
\* reads
C5_Witness ==
  \E t, u \in Threads :
    /\ th[t].pc = "idle" /\ th[t].result = LockTimeout
    /\ th[t].op = "beginWriteTimed"
    /\ lockState[th[t].coll][u] = "read"
    /\ lockState[th[t].coll][t] = "none"

\* C6: on a collection of the no-lock set no call is ever left waiting or
\* holding, the lock and the detector never know the collection, and every
\* call on it returns Ok in one step that changes neither lock nor detector
C6_NoLockIsNoOp ==
  /\ [](\A c \in makeNolockHeaders :
          /\ \A t \in Threads : lockState[c][t] = "none" /\ blocked[t].coll # c
          /\ active[c].tids = {}
          /\ \A t \in Threads :
               th[t].coll = c => (th[t].pc = "idle" /\ th[t].result = NoError))
  /\ [][\A t \in Threads :
          (th'[t] # th[t] /\ th'[t].coll \in makeNolockHeaders)
            => UNCHANGED <<lockState, active, blocked>>]_vars

\* an endWrite on a no-lock collection has returned while the other thread
\* holds a write lock elsewhere
C6_Witness ==
  \E t, u \in Threads, c \in makeNolockHeaders, d \in Lockable :
    /\ th[t].pc = "idle" /\ th[t].op = "endWrite" /\ th[t].coll = c
    /\ th[t].result = NoError
    /\ HoldsWrite(u, d)

\* -------------------------------------------------------- document properties
InPrimary(k) == primary[k] # NoSlot
Returns(t, kind) == Locked(t, kind) /\ dop'[t].pc = "idle"

\* C7: whatever calls have succeeded or failed, the primary index has as many
\* entries as _numberDocuments counts, and it holds a key exactly if the last
\* successful insert or remove of that key was an insert
C7_PrimaryIsLiveSet ==
  /\ Cardinality({k \in Keys : InPrimary(k)}) = numberDocuments
  /\ \A k \in Keys : InPrimary(k) <=> lastOk[k] = "insert"

\* a key was inserted and removed, and then an insert that the log rejected
\* has been rolled back
C7_Witness ==
  \E k \in Keys :
    /\ lastOk[k] = "remove"
    /\ lastCall.kind = "insert" /\ lastCall.result = WalError

\* C8: between calls, every entry of a secondary index is the handle of a
\* document the primary index holds under the handle's key, with the value
\* the handle has
C8_SecondaryInPrimary ==
  \A i \in Secs : \A e \in secondary[i] :
    /\ masterPointers[e[1]] # FreeSlot
    /\ primary[masterPointers[e[1]].key] = e[1]
    /\ masterPointers[e[1]].val = e[2]

\* an update or replace has failed on the unique secondary index and two
\* documents are in the secondary indexes
C8_Witness ==
  /\ lastCall.kind \in {"update", "replace"}
  /\ lastCall.result = UniqueConstraintViolated
  /\ \A i \in Secs : Cardinality(secondary[i]) = 2

\* C9 as stated: a successful update or replace of a version that an update
\* or replace has written gives the document a revision greater than the one
\* that version has
C9_RevisionsIncrease ==
  [][\A t \in Threads : \A k \in Keys :
       (/\ Returns(t, "update") \/ Returns(t, "replace")
        /\ lastCall'.result = NoError /\ lastCall'.key = k
        /\ versionBy[k] \in {"update", "replace"}
        /\ masterPointers'[primary[k]] # masterPointers[primary[k]])
         => masterPointers'[primary[k]].rev > masterPointers[primary[k]].rev]_vars

AllFaults == {NoFault} \cup HandleFaults \cup InsertFaults \cup RemoveFaults \cup WalFaults
Unchanged(r) == r.st = DocState

\* C11: in every state the collection reaches, an update or a replace of a key
\* the primary index holds, made with ignoreRevs false and an expected _rev
\* that is not the revision of the stored document, returns Conflict, whatever
\* its other inputs, and leaves the primary index, the handles, the secondary
\* indexes, the document counter and the log as they are
C11_MismatchIsConflict ==
  \A key \in Keys, e \in Revs, rev \in Revs, f \in AllFaults :
    (InPrimary(key) /\ e # masterPointers[primary[key]].rev)
      => /\ \A val \in Vals \cup {NoVal} :
              LET r == update(DocState, key, val, e, FALSE, rev, f)
              IN r.res = Conflict /\ Unchanged(r)
         /\ \A val \in Vals :
              LET r == replace(DocState, key, val, e, FALSE, rev, f)
              IN r.res = Conflict /\ Unchanged(r)

\* an update or replace of a stored document has returned Conflict after the
\* document was written twice
C11_Witness ==
  /\ lastCall.kind \in {"update", "replace"}
  /\ lastCall.result = Conflict
  /\ InPrimary(lastCall.key)
  /\ walTick = 2

\* C12: in every state the collection reaches, an insert of a new key during
\* which a secondary index fails to take the document (whichever index, with
\* out of memory, a unique constraint violation or another error) returns
\* that error with the key not in the primary index, the new handle in no
\* secondary index and the document counter as before the call
C12_SecondaryFailureUnwinds ==
  \A key \in Keys, val \in Vals, rev \in Revs, f \in AllFaults :
    LET slot == request(masterPointers, f.handle)
        ins == insertSecondaryIndexes(secondary, slot, val, FALSE, f.ins)
        r == insert(DocState, key, val, rev, f)
    IN (slot # NoSlot /\ ~InPrimary(key) /\ ins.res # NoError)
         => /\ r.res = ins.res
            /\ r.st.primary[key] = NoSlot
            /\ \A i \in Secs : \A e \in r.st.sec[i] : e[1] # slot
            /\ r.st.num = numberDocuments

\* an insert of a new key has failed in a secondary index while another
\* document is stored
C12_Witness ==
  /\ lastCall.kind = "insert"
  /\ lastCall.result = Internal
  /\ ~InPrimary(lastCall.key)
  /\ numberDocuments = 1

\* C13: in every state the collection reaches, an insert, update, replace or
\* remove that returns the error of the log, which rejected the operation,
\* leaves the primary index, every secondary index, every handle and the
\* document counter (and the log) as they were before the call
C13_WalFailureUnwinds ==
  \A key \in Keys, rev \in Revs, f \in WalFaults :
    /\ \A val \in Vals :
         LET r == insert(DocState, key, val, rev, f)
         IN r.res = WalError => Unchanged(r)
    /\ \A e \in Revs \cup {NoRev}, ign \in BOOLEAN :
         /\ \A val \in Vals \cup {NoVal} :
              LET r == update(DocState, key, val, e, ign, rev, f)
              IN r.res = WalError => Unchanged(r)
         /\ \A val \in Vals :
              LET r == replace(DocState, key, val, e, ign, rev, f)
              IN r.res = WalError => Unchanged(r)
         /\ LET r == remove(DocState, key, e, ign, f)
            IN r.res = WalError => Unchanged(r)

\* a remove of a stored document has returned the error of the log while two
\* documents are stored
C13_Witness ==
  /\ lastCall.kind = "remove"
  /\ lastCall.result = WalError
  /\ InPrimary(lastCall.key)
  /\ numberDocuments = 2

\* ignoreRevs and _rev of the requests that pass the revision check of a
\* document whose revision is found
PassingRevs(found) == {<<FALSE, NoRev>>, <<FALSE, found>>, <<TRUE, found>>}

\* the errors a secondary index answers an insert or a remove with
IndexErrors == {OutOfMemory, Internal, UniqueConstraintViolated}

\* the handle of a stored key holds the version old, every secondary index has
\* that version and no other version of the handle, and the primary index is
\* the given one
PriorVersionKept(st, slot, old, pri) ==
  /\ st.mp[slot] = old
  /\ \A i \in Secs : {e \in st.sec[i] : e[1] = slot} = {<<slot, old.val>>}
  /\ st.primary = pri

\* C14: in every state the collection reaches, an update or replace of a
\* stored key that returns the error of a secondary index (the old version
\* could not be removed, or the new version could not be inserted) leaves the
\* handle with the prior version's content, the prior version in every
\* secondary index and the new version in none, and the primary index as it
\* was
C14_UpdateFailureRestores ==
  \A key \in Keys, rev \in Revs, f \in {NoFault} \cup RemoveFaults \cup InsertFaults :
    InPrimary(key) =>
      LET slot == primary[key]
          old == masterPointers[slot]
      IN /\ \A o \in PassingRevs(old.rev), val \in Vals \cup {NoVal} :
              LET r == update(DocState, key, val, o[2], o[1], rev, f)
              IN r.res \in IndexErrors => PriorVersionKept(r.st, slot, old, primary)
         /\ \A val \in Vals :
              LET r == replace(DocState, key, val, old.rev, FALSE, rev, f)
              IN r.res \in IndexErrors => PriorVersionKept(r.st, slot, old, primary)

\* a replace of a stored document has failed with out of memory in a
\* secondary index
C14_Witness ==
  /\ lastCall.kind = "replace"
  /\ lastCall.result = OutOfMemory
  /\ InPrimary(lastCall.key)

\* C15 as stated: in every state the collection reaches, an update of a
\* stored key whose request has no attribute besides system attributes (_key,
\* with or without _rev) and which passes the revision check returns no error
\* and leaves the handle with its revision, the indexes and the log as they
\* are
C15_SystemOnlyUpdateIsNoOp ==
  \A key \in Keys, rev \in Revs :
    InPrimary(key) =>
      \A o \in PassingRevs(masterPointers[primary[key]].rev) :
        LET r == update(DocState, key, NoVal, o[2], o[1], rev, NoFault)
        IN r.res = NoError /\ Unchanged(r)

\* C16: in every state the collection reaches, a successful insert of a new
\* key followed by a successful remove of that key leaves the primary index,
\* the secondary indexes, the handles and the document counter as they were
\* before the insert: the key is in no index, and the remove has taken the
\* counter down by exactly one
C16_InsertThenRemove ==
  \A key \in Keys, val \in Vals, rev \in Revs :
    LET r1 == insert(DocState, key, val, rev, NoFault)
    IN \A o \in PassingRevs(rev) :
         LET r2 == remove(r1.st, key, o[2], o[1], NoFault)
         IN (r1.res = NoError /\ r2.res = NoError)
              => /\ r1.st.primary[key] # NoSlot
                 /\ r2.st.primary[key] = NoSlot
                 /\ \A i \in Secs : \A e \in r2.st.sec[i] : e[1] # r1.st.primary[key]
                 /\ r2.st.num = r1.st.num - 1
                 /\ r2.st.primary = primary /\ r2.st.sec = secondary
                 /\ r2.st.mp = masterPointers /\ r2.st.num = numberDocuments

\* the two calls that succeeded so far are an insert of a key and a remove of
\* the same key
C16_Witness ==
  /\ lastCall.kind = "remove"
  /\ lastCall.result = NoError
  /\ lastOk[lastCall.key] = "remove"
  /\ walTick = 2 /\ numberDocuments = 0

\* the document of a handle is in the primary index and in every secondary
\* index, and the counter has the given value
StillStored(st, slot, hdr, num) ==
  /\ st.primary[hdr.key] = slot
  /\ st.mp[slot] = hdr
  /\ \A i \in Secs : <<slot, hdr.val>> \in st.sec[i]
  /\ st.num = num

\* C17: in every state the collection reaches, a remove of a stored key that
\* fails while deleting the document from a secondary index, or while
\* deleting it from the primary index after the secondary indexes gave it
\* up, returns that error with the document in every secondary index again,
\* still in the primary index, and the document counter unchanged
C17_RemoveFailureRestores ==
  \A key \in Keys, f \in RemoveFaults \cup PrimaryFaults :
    InPrimary(key) =>
      LET slot == primary[key]
          hdr == masterPointers[slot]
      IN \A o \in PassingRevs(hdr.rev) :
           LET r == remove(DocState, key, o[2], o[1], f)
           IN /\ r.res = Internal
              /\ StillStored(r.st, slot, hdr, numberDocuments)
              /\ r.st.wal = walTick

\* a remove of a stored document has failed in an index while both documents
\* are stored
C17_Witness ==
  /\ lastCall.kind = "remove"
  /\ lastCall.result = Internal
  /\ InPrimary(lastCall.key)
  /\ numberDocuments = 2

\* C18: a read returns DocumentNotFound, with no handle copied, when the
\* primary index does not hold the key, and otherwise no error and a copy of
\* the handle the primary index holds for the key; in both cases the primary
\* index, the handles, the secondary indexes, the document counter and the
\* log are as before
C18_ReadIsPure ==
  [][(lastCall'.kind = "read" /\ lastCall' # lastCall)
       => /\ UNCHANGED <<primary, masterPointers, secondary, numberDocuments,
                         walTick>>
          /\ IF InPrimary(lastCall'.key)
             THEN /\ lastCall'.result = NoError
                  /\ lastCall'.mptr = masterPointers[primary[lastCall'.key]]
             ELSE /\ lastCall'.result = DocumentNotFound
                  /\ lastCall'.mptr = FreeSlot]_vars

\* a read has returned the copy of a document that was written twice
C18_Witness ==
  /\ lastCall.kind = "read"
  /\ lastCall.result = NoError
  /\ lastCall.mptr.rev = 2
  /\ walTick = 2

\* ------------------------------------------------------------ open properties
\* the positions of the markers of key k among the replayed ones
MarkersOf(k) ==
  {i \in DOMAIN openState.replayed : openState.replayed[i].key = k}

\* the last replayed marker of key k is a document version
LastIsDocument(k) ==
  /\ MarkersOf(k) # {}
  /\ LET last == CHOOSE i \in MarkersOf(k) : \A j \in MarkersOf(k) : j <= i
     IN openState.replayed[last].type = "document"

\* C19: while and after the markers are replayed into the empty collection,
\* and no marker handler has failed, the primary index holds exactly the keys
\* whose last replayed marker is a document version, _numberDocuments is
\* the number of those keys, and the revision high-water-mark is at least the
\* revision of every replayed marker
C19_ReplayRebuildsPrimary ==
  (openState.pc \in {"iterating", "iterated", "collection"}
     /\ openState.failed = NoError)
    => /\ \A k \in Keys : InPrimary(k) <=> LastIsDocument(k)
       /\ numberDocuments = Cardinality({k \in Keys : LastIsDocument(k)})
       /\ \A i \in DOMAIN openState.replayed :
            openState.revision >= openState.replayed[i].rev

\* open has returned the collection after replaying a document version of
\* revision 1, one of revision 2 and a deletion of revision 3 of the same
\* key: the primary index is empty and the counter is 0
C19_Witness ==
  /\ openState.pc = "collection"
  /\ Len(openState.replayed) = 3
  /\ \A i \in 1..3 : openState.replayed[i].key = "k1" /\ openState.replayed[i].rev = i
  /\ openState.replayed[1].type = "document"
  /\ openState.replayed[2].type = "document"
  /\ openState.replayed[3].type = "remove"
  /\ \A k \in Keys : ~InPrimary(k)
  /\ numberDocuments = 0
  /\ openState.revision = 3

\* C20 as stated: when a marker handler has failed with out of memory, open
\* does not return a collection
C20_OutOfMemoryAbortsOpen ==
  openState.failed = OutOfMemory => openState.pc # "collection"

\* ------------------------------------------------------------ index properties
\* the collection has its initial indexes
Initialised == registry.stage \in {"opening", "filling", "open"}

\* the ids index calls are made with: 0, the generated ids, the id of an
\* added index, the collection's id
IndexIds == 0..CollectionId

Ensures == {"ensureHashIndex", "ensureSkiplistIndex", "ensureFulltextIndex"}

InRegistry(reg, idx) == \E i \in DOMAIN reg.indexes : reg.indexes[i] = idx

\* C21: once createInitialIndexes has run, whatever index calls follow, the
\* first index of the registry is the primary index, and removeIndex and
\* dropIndex, called with any id, neither return it nor take it out
C21_PrimaryIsFirst ==
  Initialised =>
    /\ Len(registry.indexes) >= 1
    /\ registry.indexes[1] = PrimaryIndex
    /\ \A iid \in IndexIds :
         LET r == removeIndex(registry, iid)
             d == dropIndex(registry, iid)
         IN /\ r.found # PrimaryIndex
            /\ r.reg.indexes # <<>> /\ r.reg.indexes[1] = PrimaryIndex
            /\ d.found # PrimaryIndex
            /\ d.reg.indexes # <<>> /\ d.reg.indexes[1] = PrimaryIndex

\* removeIndex was called with the primary index's id on a registry that has
\* secondary indexes, and dropIndex before it has dropped one
C21_Witness ==
  /\ idxCall.kind = "removeIndex"
  /\ idxCall.args.iid = PrimaryIndex.id
  /\ idxCall.idx = NoIndex
  /\ Len(registry.indexes) > 1
  /\ registry.indexes[1] = PrimaryIndex
  /\ registry.tick = MaxTick

fulltextIn(reg) == {i \in DOMAIN reg.indexes : reg.indexes[i].type = "fulltext"}
persistentIn(reg) == {i \in DOMAIN reg.indexes : isPersistent(reg.indexes[i])}

\* C22: _cleanupIndexes is the number of fulltext indexes in the registry and
\* _persistentIndexes the number of persistent ones; neither is negative
C22_CountersMatchRegistry ==
  /\ registry.cleanupIndexes = Cardinality(fulltextIn(registry))
  /\ registry.persistentIndexes = Cardinality(persistentIn(registry))
  /\ registry.cleanupIndexes >= 0
  /\ registry.persistentIndexes >= 0

\* removeIndex has taken out one of two fulltext indexes, a persistent index
\* is in the registry
C22_Witness ==
  /\ idxCall.kind = "removeIndex"
  /\ idxCall.idx.type = "fulltext"
  /\ registry.cleanupIndexes = 1
  /\ registry.persistentIndexes = 1

\* an index holds exactly the documents of the primary index
populated(idx, st) ==
  idx.entries = {<<slot, st.mp[slot].val>> : slot \in {x \in Slots : InPrimaryIndex(st, x)}}

sameRegistry(a, b) ==
  /\ a.indexes = b.indexes
  /\ a.cleanupIndexes = b.cleanupIndexes
  /\ a.persistentIndexes = b.persistentIndexes

\* what the second of two equal ensure calls returns: the index the first
\* call returned, created = false, and the registry as the first call left it
sameAgain(r1, r2) ==
  /\ r2.idx = r1.idx
  /\ ~r2.created
  /\ Len(r2.reg.indexes) = Len(r1.reg.indexes)
  /\ sameRegistry(r2.reg, r1.reg)

\* C23: ensureHashIndex, ensureSkiplistIndex and ensureFulltextIndex called
\* twice with the same fields and flags return the same index; the second
\* call reports created = false and the registry has as many indexes as after
\* the first call, whatever the registry held before and whatever fails in
\* the second call
C23_EnsureTwiceSameIndex ==
  Usable =>
    /\ \A attributes \in IdxAttributes, flags \in IdxFlags, f1 \in IdxFaults :
         LET h1 == ensureHashIndex(registry, DocState, 0, attributes, flags[2],
                                   flags[1], f1)
             s1 == ensureSkiplistIndex(registry, DocState, 0, attributes, flags[2],
                                       flags[1], f1)
         IN /\ h1.idx # NoIndex =>
                 \A f2 \in IdxFaults :
                   sameAgain(h1, ensureHashIndex(h1.reg, DocState, 0, attributes,
                                                 flags[2], flags[1], f2))
            /\ s1.idx # NoIndex =>
                 \A f2 \in IdxFaults :
                   sameAgain(s1, ensureSkiplistIndex(s1.reg, DocState, 0,
                                                     attributes, flags[2],
                                                     flags[1], f2))
    /\ \A attribute \in {"a", "b"}, minWordLength \in WordLengths,
          f1 \in IdxFaults :
         LET t1 == ensureFulltextIndex(registry, DocState, 0, attribute,
                                       minWordLength, f1)
         IN t1.idx # NoIndex =>
              \A f2 \in IdxFaults :
                sameAgain(t1, ensureFulltextIndex(t1.reg, DocState, 0, attribute,
                                                  minWordLength, f2))
    /\ (idxCall.kind \in Ensures /\ idxCall.prev # NoIndex)
         => idxCall.idx = idxCall.prev /\ ~idxCall.created

\* an ensure call has returned, with created = false, the index that the
\* same call with the same arguments had returned just before
C23_Witness ==
  /\ idxCall.kind \in Ensures
  /\ idxCall.prev # NoIndex
  /\ idxCall.idx = idxCall.prev
  /\ ~idxCall.created
  /\ InRegistry(registry, idxCall.idx)

fillsBeforeAdding(reg, st, r, candidate, f) ==
  LET pop == fillIndex(reg, st, candidate, TRUE, f.fill)
  IN /\ r.created =>
          /\ pop.res = NoError
          /\ populated(r.idx, st)
          /\ r.reg.indexes = Append(reg.indexes, r.idx)
     /\ pop.res # NoError =>
          /\ r.idx = NoIndex
          /\ ~r.created
          /\ sameRegistry(r.reg, reg)
          /\ r.errno = pop.res

RECURSIVE firstError(_)
firstError(results) ==
  IF results = <<>> THEN NoError
  ELSE IF Head(results) # NoError THEN Head(results)
  ELSE firstError(Tail(results))

\* C25: fillIndexes latches the first error of its fill tasks, in the order
\* in which they end, and no later error replaces it; it returns only when
\* each of the n - 1 tasks has joined the barrier, and returns the latched
\* error, which is no error exactly when every task succeeded
C25_FirstErrorAfterBarrier ==
  /\ fill.result = firstError(fill.done)
  /\ (fill.pc = "returned" /\ NumIndexes > 1) =>
       /\ fill.joined = NumIndexes - 1
       /\ Len(fill.done) = NumIndexes - 1
       /\ \A i \in 2..NumIndexes : fill.task[i] = "joined"
       /\ fill.ret = firstError(fill.done)
       /\ fill.ret = NoError <=> \A i \in DOMAIN fill.done : fill.done[i] = NoError

\* fillIndexes has returned after three tasks, two of them on pool threads,
\* of which the first to end and the last to end failed with different
\* errors: the result is the first one's
C25_Witness ==
  /\ fill.pc = "returned"
  /\ fill.pool
  /\ Len(fill.done) = 3
  /\ fill.done[1] # NoError
  /\ fill.done[3] # NoError
  /\ fill.done[3] # fill.done[1]
  /\ fill.ret = fill.done[1]

\* ------------------------------------------------- locking of the mutations
\* C26: insert, update, replace and remove with lock = true on a collection
\* that is not in the no-lock set change the primary index, a secondary
\* index, a handle or the document counter only in the critical section of a
\* thread that holds the collection's write lock, is registered as its
\* writer, and is the only thread holding the lock; that covers what the
\* call undoes after a failure
C26_MutationsUnderWriteLock ==
  [][(<<primary, masterPointers, secondary, numberDocuments>>'
        # <<primary, masterPointers, secondary, numberDocuments>>)
       => /\ ~noLock(DocColl)
          /\ \E t \in Threads :
               /\ dop[t].pc = "locked"
               /\ dop'[t].pc = "idle"
               /\ lockState[DocColl][t] = "write"
               /\ t \in active[DocColl].tids
               /\ active[DocColl].isWrite
               /\ \A u \in Threads \ {t} :
                    /\ lockState[DocColl][u] = "none"
                    /\ dop[u].pc # "locked"]_vars

\* a remove has failed at the write-ahead log and was undone, the document
\* is still there; the thread that had waited for the lock meanwhile is now
\* in its critical section with the write lock
C26_Witness ==
  /\ lastCall.kind = "remove"
  /\ lastCall.result = WalError
  /\ numberDocuments = 1
  /\ \E t \in Threads :
       /\ dop[t].pc = "locked"
       /\ lockState[DocColl][t] = "write"
       /\ \A u \in Threads \ {t} :
            dop[u].pc = "idle" /\ lockState[DocColl][u] = "none"

\* C27: insert into an edge collection of a document whose _from or _to is
\* missing, is not a string or is not a document id returns
\* TRI_ERROR_ARANGO_INVALID_EDGE_ATTRIBUTE, and the step that returns it
\* takes no lock and changes no index, handle, counter, log or revision; in
\* a document collection the attributes are not looked at
C27_InvalidEdgeBeforeLock ==
  [][/\ \A from \in EdgeAttributes, to \in EdgeAttributes :
          /\ validateEdgeAttributes(TRUE, from, to) =
               (IF from = "valid" /\ to = "valid" THEN NoError
                ELSE InvalidEdgeAttribute)
          /\ validateEdgeAttributes(FALSE, from, to) = NoError
     /\ (lastCall' # lastCall /\ lastCall'.result = InvalidEdgeAttribute) =>
          /\ lastCall'.kind = "insert"
          /\ UNCHANGED <<lockState, active, blocked, th>>
          /\ UNCHANGED <<primary, masterPointers, secondary, numberDocuments,
                         walTick, clock, dop>>
          /\ \E t \in Threads :
               dop[t].pc = "idle" /\ \A c \in Colls : lockState'[c][t] = "none"]_vars

\* an insert has returned the edge-attribute error from a collection that
\* holds a document; no thread holds a lock and no call is under way
C27_Witness ==
  /\ lastCall.kind = "insert"
  /\ lastCall.result = InvalidEdgeAttribute
  /\ numberDocuments = 1
  /\ \A t \in Threads : dop[t].pc = "idle"
  /\ \A c \in Colls, t \in Threads : lockState[c][t] = "none"

\* ------------------------------------------------- timed acquisition, again
\* thread t makes a failed attempt of its timed call in this step
FailsAttempt(t) ==
  th[t].pc = "poll" /\ th'[t] # th[t] /\ th'[t].pc # "locked"

\* the failed attempts at which the periodic check is due: the 6th, the
\* 11th, ...
CheckAt(n) == n > 1 /\ (n - 1) % CheckInterval = 0

C29_TimeoutAtKthAttempt ==
  [][/\ EffectiveTimeout(0) = 900000000
     /\ \A x \in Timeouts \ {0} : EffectiveTimeout(x) = x
     /\ \A t \in Threads :
          /\ (th[t].pc = "idle" /\ th'[t].pc = "poll") =>
               /\ th'[t].timeout \in {IF x = 0 THEN 900000000 ELSE x : x \in Timeouts}
               /\ th'[t].attempts = 0
               /\ th'[t].waited = 0
          /\ FailsAttempt(t) =>
               LET k == th[t].attempts + 1
                   timeout == th[t].timeout
                   sleepPeriod == th[t].sleepPeriod
               IN /\ th'[t].result = LockTimeout =>
                       /\ th'[t].pc = "idle"
                       /\ th'[t].attempts = k
                       /\ k * sleepPeriod > timeout
                       /\ \A j \in 1..(k - 1) : j * sleepPeriod <= timeout
                  /\ th'[t].pc = "poll" =>
                       /\ k * sleepPeriod <= timeout
                       /\ th'[t].waited = k * sleepPeriod
                  /\ k * sleepPeriod > timeout =>
                       th'[t].result \in {LockTimeout, Deadlock, OutOfMemory}]_vars

\* one call with timeout MaxTimeout and sleep period 1 has returned
\* LockTimeout after MaxTimeout + 1 failed attempts, and one with timeout 0
\* and a sleep period of 15 minutes after two
C29_Witness ==
  /\ th[1].result = LockTimeout
  /\ th[1].timeout = MaxTimeout
  /\ th[1].sleepPeriod = 1
  /\ th[1].attempts = MaxTimeout + 1
  /\ th[2].result = LockTimeout
  /\ th[2].timeout = DefaultTimeout
  /\ th[2].sleepPeriod = DefaultTimeout
  /\ th[2].attempts = 2

\* C30: when beginRead or beginWrite returns OutOfMemory because addReader /
\* addWriter failed, the calling thread does not hold the lock of the
\* collection and is not registered with the detector, and the lock is as
\* free for the other threads as it was before the call: a failed beginWrite
\* leaves it free, a failed beginRead leaves it without a writer
C30_OutOfMemoryHoldsNoLock ==
  [][\A t \in Threads :
       (th[t].pc = "register" /\ th'[t].result = OutOfMemory) =>
         LET c == th[t].coll
         IN /\ th'[t].pc = "idle"
            /\ lockState[c][t] = ModeOf(th[t].op)
            /\ lockState'[c][t] = "none"
            /\ \A u \in Threads \ {t}, d \in Colls : lockState'[d][u] = lockState[d][u]
            /\ t \notin active'[c].tids
            /\ blocked' = blocked
            /\ IF IsWriteOp(th[t].op)
               THEN \A u \in Threads : lockState'[c][u] = "none"
               ELSE \A u \in Threads : lockState'[c][u] # "write"]_vars

\* thread 1 has got OutOfMemory from beginRead / beginWrite as its last call,
\* and thread 2 holds the write lock of both collections: it took the lock
\* of the collection thread 1 had asked for after thread 1's call
C30_Witness ==
  /\ th[1].pc = "idle"
  /\ th[1].result = OutOfMemory
  /\ th[1].exit = "register"
  /\ lockState["A"][2] = "write"
  /\ lockState["B"][2] = "write"
  /\ th[2].pc = "idle"
  /\ \A c \in Colls : lockState[c][1] = "none"

\* ------------------------------------------------------ revisions, again
\* the request's _rev is there and is not the revision of the stored document
Mismatch(key, e) == e # NoRev /\ e # masterPointers[primary[key]].rev

\* C31: for a key the primary index holds, update, replace and remove return
\* Conflict exactly when ignoreRevs is false and the request carries a _rev
\* that differs from the revision of the stored document; a request without
\* _rev (a remove given the key string has none) never gets Conflict,
\* whatever else fails in the call
C31_ConflictIffMismatch ==
  \A key \in Keys, e \in Revs \cup {NoRev}, ignoreRevs \in BOOLEAN, rev \in {MaxRev},
     f \in {NoFault} \cup WalFaults \cup RemoveFaults :
    InPrimary(key) =>
      /\ \A val \in Vals \cup {NoVal} :
           (update(DocState, key, val, e, ignoreRevs, rev, f).res = Conflict)
             <=> (~ignoreRevs /\ Mismatch(key, e))
      /\ \A val \in Vals :
           (replace(DocState, key, val, e, ignoreRevs, rev, f).res = Conflict)
             <=> (~ignoreRevs /\ Mismatch(key, e))
      /\ (remove(DocState, key, e, ignoreRevs, f).res = Conflict)
           <=> (~ignoreRevs /\ Mismatch(key, e))

\* a remove of a stored document has returned Conflict, and the document is
\* still stored
C31_Witness ==
  /\ lastCall.kind = "remove"
  /\ lastCall.result = Conflict
  /\ InPrimary(lastCall.key)
  /\ numberDocuments = 1

\* ------------------------------------------------------------ restored revisions
\* a call with isRestore took its revision in this step
TakesRevision(t) == dop[t].pc = "idle" /\ dop'[t].pc = "minted"

\* a call returned without error in this step and has written a version
\* (an update with nothing to change writes none)
WroteVersion(t) ==
  /\ dop[t].pc = "locked" /\ dop'[t].pc = "idle"
  /\ dop[t].kind \in {"insert", "update", "replace"}
  /\ lastCall'.result = NoError
  /\ masterPointers' # masterPointers

\* C32: with isRestore, a _rev string of an earlier epoch never makes insert,
\* update, replace or remove fail: the call takes the clock's next value as
\* its revision, as it does without isRestore, and goes on; a _rev string of
\* the current format is the revision of the version the call writes, and
\* the clock is not read
C32_OldEpochRevIsReplaced ==
  [][/\ \A kind \in Kinds :
          /\ revisionId(kind, TRUE, [form |-> "old", rid |-> NoRev], clock + 1)
               = [res |-> NoError, rev |-> clock + 1, fresh |-> TRUE]
          /\ revisionId(kind, TRUE, [form |-> "old", rid |-> NoRev], clock + 1)
               = revisionId(kind, FALSE, [form |-> "old", rid |-> NoRev], clock + 1)
     /\ lastCall'.restore = "old" => lastCall'.result # DocumentRevBad
     /\ \A t \in Threads :
          /\ (TakesRevision(t) /\ dop'[t].restore = "old")
               => dop'[t].rev = clock + 1 /\ clock' = clock + 1
          /\ (TakesRevision(t) /\ dop'[t].restore = "current")
               => dop'[t].rev \in Revs /\ clock' = clock
          /\ (WroteVersion(t) /\ dop[t].restore \in {"old", "current"})
               => masterPointers'[primary'[lastCall'.key]].rev = dop[t].rev
    ]_vars

C32_Witness ==
  /\ lastCall.kind = "update" /\ lastCall.restore = "old"
  /\ lastCall.result = NoError
  /\ InPrimary(lastCall.key)
  /\ masterPointers[primary[lastCall.key]].rev = clock
  /\ walTick = 2 /\ clock = 1

\* ------------------------------------------------------------ index lookups
\* t holds the elements of s in some order
isPermutation(s, t) ==
  /\ Len(s) = Len(t)
  /\ \E f \in [DOMAIN s -> DOMAIN t] :
       /\ \A i, j \in DOMAIN s : f[i] = f[j] => i = j
       /\ \A i \in DOMAIN s : s[i] = t[f[i]]

\* the index is of the type and has the uniqueness, sparsity and, in some
\* order, the fields the lookup asks for
Requested(idx, a) ==
  /\ idx.type = a.type
  /\ idx.unique = a.unique
  /\ a.sparsity = -1 \/ a.sparsity = (IF idx.sparse THEN 1 ELSE 0)
  /\ isPermutation(idx.fields, a.attributes)

\* C33: a lookup returns an index only if it is of the requested type,
\* uniqueness and sparsity and its fields are a permutation of the requested
\* ones, and it returns such an index whenever the registry has one
C33_LookupFindsPermutation ==
  idxCall.kind = "lookup" =>
    /\ idxCall.idx # NoIndex => Requested(idxCall.idx, idxCall.args)
    /\ (\E i \in DOMAIN registry.indexes :
          Requested(registry.indexes[i], idxCall.args))
         => /\ idxCall.idx # NoIndex
            /\ \E i \in DOMAIN registry.indexes : registry.indexes[i] = idxCall.idx

\* ------------------------------------------------------------ attribute order
\* the attribute lists that hold the fields of an index in another order
Reordered(idx) ==
  {a \in IdxAttributes : a # idx.fields /\ isPermutation(idx.fields, a)}

\* the registry has a skiplist index on exactly these attributes and flags
HasSkiplist(reg, a, sparse, unique) ==
  \E i \in DOMAIN reg.indexes :
    /\ reg.indexes[i].type = "skiplist" /\ reg.indexes[i].fields = a
    /\ reg.indexes[i].sparse = sparse /\ reg.indexes[i].unique = unique

\* C34: ensureHashIndex with the attributes of a hash index of the registry in
\* another order, and its flags, returns that index and leaves the registry
\* as it is; ensureSkiplistIndex with the attributes of a skiplist index in
\* another order never returns that index: it creates one more index with
\* an id of its own
C34_OrderMattersForSkiplistOnly ==
  \A i \in DOMAIN registry.indexes :
    LET idx == registry.indexes[i]
    IN \A a \in Reordered(idx) :
         /\ idx.type = "hash" =>
              \A f \in IdxFaults :
                LET r == ensureHashIndex(registry, DocState, 0, a, idx.sparse,
                                         idx.unique, f)
                IN /\ r.idx = idx
                   /\ ~r.created
                   /\ r.reg = registry
         /\ (idx.type = "skiplist" /\ ~HasSkiplist(registry, a, idx.sparse, idx.unique)) =>
              /\ \A f \in IdxFaults :
                   ensureSkiplistIndex(registry, DocState, 0, a, idx.sparse,
                                       idx.unique, f).idx # idx
              /\ LET r == ensureSkiplistIndex(registry, DocState, 0, a, idx.sparse,
                                              idx.unique, NoIdxFault)
                 IN /\ r.created
                    /\ r.idx.type = "skiplist" /\ r.idx.fields = a
                    /\ r.idx.id # idx.id
                    /\ Len(r.reg.indexes) = Len(registry.indexes) + 1
                    /\ \E j \in DOMAIN r.reg.indexes : r.reg.indexes[j] = idx

C34_Witness ==
  /\ idxCall.kind = "ensureSkiplistIndex" /\ idxCall.created
  /\ idxCall.idx # NoIndex
  /\ \E i \in DOMAIN registry.indexes :
       /\ registry.indexes[i].type = "skiplist"
       /\ registry.indexes[i].id # idxCall.idx.id
       /\ idxCall.idx.fields \in Reordered(registry.indexes[i])

\* ------------------------------------------------------------ a failed save
\* what one ensure call, made from the present registry while the save fails,
\* and then made again, returns
UnsavedStays(ensure(_, _)) ==
  \A f \in SaveFaults :
    LET r1 == ensure(registry, f)
    IN r1.created =>
         /\ r1.idx = NoIndex
         /\ Len(r1.reg.indexes) = Len(registry.indexes) + 1
         /\ \A f2 \in IdxFaults :
              LET r2 == ensure(r1.reg, f2)
              IN /\ r2.idx = r1.reg.indexes[Len(r1.reg.indexes)]
                 /\ ~InRegistry(registry, r2.idx)
                 /\ ~r2.created
                 /\ r2.reg = r1.reg

\* the attributes geo indexes are asked for
GeoAttributes == {"a", "b"}

\* C38: when an ensure call has created and registered an index and saving
\* it fails, the call returns no index and the registry keeps the new index;
\* the same call made again returns that index with created = false whether
\* or not a save would fail, and leaves the registry as it is
C38_UnsavedIndexStaysRegistered ==
  /\ \A in \in HashInputs :
       UnsavedStays(LAMBDA reg, f :
         ensureHashIndex(reg, DocState, 0, in[1], in[2][2], in[2][1], f))
  /\ \A in \in SkiplistInputs :
       UnsavedStays(LAMBDA reg, f :
         ensureSkiplistIndex(reg, DocState, 0, in[1], in[2][2], in[2][1], f))
  /\ \A in \in FulltextInputs :
       UnsavedStays(LAMBDA reg, f :
         ensureFulltextIndex(reg, DocState, 0, in[1], in[2], f))
  /\ \A location \in GeoAttributes, geoJson \in BOOLEAN :
       UnsavedStays(LAMBDA reg, f :
         ensureGeoIndex1(reg, DocState, 0, location, geoJson, f))
  /\ \A latitude \in GeoAttributes, longitude \in GeoAttributes :
       UnsavedStays(LAMBDA reg, f :
         ensureGeoIndex2(reg, DocState, 0, latitude, longitude, f))

C38_Witness ==
  /\ idxCall.kind = "ensureHashIndex" /\ idxCall.created
  /\ idxCall.idx = NoIndex
  /\ lookupHashIndex(registry, idxCall.args.attributes,
                     IF idxCall.args.sparse THEN 1 ELSE 0, idxCall.args.unique) # NoIndex
  /\ ensureGeoIndex1(registry, DocState, 0, "a", TRUE,
                     CHOOSE f \in SaveFaults : TRUE).created

\* ------------------------------------------------------------ open(): order
\* no index but the primary index holds a document
SecondaryEmpty(reg) ==
  \A i \in DOMAIN reg.indexes : i > 1 => reg.indexes[i].entries = {}

\* an index of the registry gets a document in this step
Populates ==
  \E i \in DOMAIN registry'.indexes :
    /\ registry'.indexes[i].entries # {}
    /\ ~\E j \in DOMAIN registry.indexes :
          /\ registry.indexes[j].id = registry'.indexes[i].id
          /\ registry.indexes[j].entries = registry'.indexes[i].entries

\* C36: while open replays the markers and loads the index definitions no
\* index but the primary one holds a document; the definitions are loaded
\* after the replay, the flag for filling secondary indexes is afterwards what
\* it was, also when loading fails, and the indexes are filled only after
\* that, by fillIndexes, which is not run in recovery
C36_IndexesFilledAfterReplay ==
  [][/\ registry.stage = "opening" => SecondaryEmpty(registry)
     /\ (registry.stage = "opening" /\ registry'.stage # "opening") =>
          /\ openState.pc = "collection"
          /\ registry'.stage \in {"filling", "open", "failed"}
          /\ registry'.useSecondaryIndexes = registry.useSecondaryIndexes
          /\ SecondaryEmpty(registry')
          /\ fill' = fill
     /\ (registry.stage \in {"opening", "filling"} /\ Populates) =>
          /\ registry.stage = "filling"
          /\ fill.pc \in {"loop", "barrier"}
          /\ openState.pc = "collection"
          /\ UNCHANGED <<primary, masterPointers, numberDocuments>>
    ]_vars

C36_Witness ==
  /\ registry.stage = "filling" /\ fill.pc = "loop"
  /\ numberDocuments = 2
  /\ \E i, j \in DOMAIN registry.indexes :
       /\ i > 1 /\ j > 1
       /\ registry.indexes[i].entries # {}
       /\ registry.indexes[j].entries = {}

\* ------------------------------------------------------------ replay, again
\* the marker replayed in this step
Replays == Len(openState'.replayed) = Len(openState.replayed) + 1
Replayed == openState'.replayed[Len(openState'.replayed)]

\* the handles in use
Allocated(mp) == {s \in Slots : mp[s] # FreeSlot}

RECURSIVE sumAlive(_, _)
sumAlive(numberAlive, f) ==
  IF f = 0 THEN 0 ELSE numberAlive[f] + sumAlive(numberAlive, f - 1)

\* C37: after each marker replayed during open, the numberAlive statistics
\* of the datafiles add up to the document counter, and none is negative
C37_AliveStatisticsMatchCounter ==
  openState.pc # "closed" =>
    /\ sumAlive(openState.numberAlive, MaxFid) = numberDocuments
    /\ \A f \in Fids : openState.numberAlive[f] >= 0

C37_Witness ==
  /\ Len(openState.replayed) = 3
  /\ openState.replayed[1].fid = 1 /\ openState.replayed[2].fid = 2
  /\ openState.replayed[1].key = openState.replayed[2].key
  /\ openState.replayed[2].type = "document"
  /\ openState.replayed[3].type = "document"
  /\ openState.numberAlive[1] = 0 /\ openState.numberAlive[2] = 2
  /\ numberDocuments = 2

\* ------------------------------------------------------------ shortest path
\* the vertices at most k edges away from those of S
RECURSIVE within(_, _, _)
within(E, S, k) ==
  IF k = 0 THEN S
  ELSE within(E, S \cup {w \in Vertices : \E v \in S : <<v, w>> \in E}, k - 1)

\* the number of edges of a shortest path from s to e, NumVertices when
\* there is none
distance(E, s, e) ==
  IF e \notin within(E, {s}, NumVertices - 1) THEN NumVertices
  ELSE CHOOSE k \in 0..(NumVertices - 1) :
         /\ e \in within(E, {s}, k)
         /\ \A j \in 0..(k - 1) : e \notin within(E, {s}, j)

\* C39: shortestPath(s, e) returns true exactly when the edges lead from s
\* to e; the vertices of the result then go from s to e along edges of the
\* graph, one more vertex than edges, and no path has fewer edges; for s = e
\* the result is the vertex s alone
C39_ShortestPathFound ==
  sp.pc = "returned" =>
    /\ sp.ret <=> distance(sp.E, sp.start, sp.end) < NumVertices
    /\ sp.ret =>
         /\ sp.vertices[1] = sp.start
         /\ sp.vertices[Len(sp.vertices)] = sp.end
         /\ Len(sp.vertices) = Len(sp.edges) + 1
         /\ \A i \in DOMAIN sp.edges :
              /\ sp.edges[i] = <<sp.vertices[i], sp.vertices[i + 1]>>
              /\ sp.edges[i] \in sp.E
         /\ Len(sp.edges) = distance(sp.E, sp.start, sp.end)
    /\ sp.start = sp.end => sp.ret /\ sp.vertices = <<sp.start>> /\ sp.edges = <<>>

C39_Witness ==
  /\ sp.pc = "returned" /\ sp.ret
  /\ Len(sp.edges) = 3
  /\ Cardinality(sp.E) > 4
  /\ \E v \in Vertices : <<v, v>> \in sp.E

\* the fetches of the call that returned last, but for the final one
butLast(log) == SubSeq(log, 1, Len(log) - 1)

\* C40: over the produceRow calls of an executor, every block fetched from
\* upstream is passed to doModifications exactly once, in the order fetched;
\* a call that finds the current block with rows still to output fetches
\* nothing and outputs one row of that block; a fetch that returns WAITING
\* ends the call, which returns WAITING with no block, no row written and
\* nothing passed to doModifications for that fetch; an executor that
\* produces no results never writes a row nor stays prepared, and its calls
\* return only when the upstream is DONE or WAITING
C40_EveryBlockModifiedOnce ==
  [][me.pc = "ready" =>
       /\ me'.modified = me'.fetched
       /\ \A i, j \in 1..Len(me'.modified) :
            me'.modified[i] = me'.modified[j] => i = j
       /\ (me.producesResults /\ me.pending > 0) =>
            /\ me'.log = <<>>
            /\ me'.block = me.block
            /\ me'.written = me.written + 1
            /\ me'.pending = me.pending - 1
       /\ \A i \in 1..Len(me'.log) :
            me'.log[i].state = "WAITING" =>
              i = Len(me'.log) /\ me'.ret = "WAITING"
       /\ me'.ret = "WAITING" =>
            /\ me'.log # <<>>
            /\ me'.log[Len(me'.log)] = [state |-> "WAITING", block |-> NoBlock]
            /\ me'.block = NoBlock
            /\ me'.written = me.written
            /\ ~me'.prepared
            /\ me'.modified =
                 me.modified \o [i \in 1..Len(me'.log) - 1 |-> me'.log[i].block]
       /\ ~me.producesResults =>
            /\ me'.written = 0
            /\ ~me'.prepared
            /\ me'.ret \in {"DONE", "WAITING"}
            /\ me'.ret = "DONE" => me'.upstreamState = "DONE"
            /\ \A i \in 1..Len(butLast(me'.log)) :
                 me'.log[i].block # NoBlock]_vars

\* an executor that produces results has output the one row of its first
\* block; the next call has fetched a second block with nothing to output
\* and then got WAITING
C40_Witness ==
  /\ me.pc = "ready"
  /\ me.producesResults
  /\ me.ret = "WAITING"
  /\ me.written = 1
  /\ me.modified = <<1, 2>>
  /\ Len(me.log) = 2
  /\ me.up = <<>>

====
